---- MODULE Spec2Model ----
(***************************************************************************)
(* Model of the jsonrpc-types wire codec: the typed request and response   *)
(* envelopes of JSON-RPC 1.0 and 2.0, their serializers and their          *)
(* field-scanning deserializers, over an explicit JSON tree.               *)
(*                                                                         *)
(* A JSON object is a SEQUENCE of <<key, value>> pairs, so that field      *)
(* order, repeated keys and unknown keys are all expressible.              *)
(***************************************************************************)
EXTENDS Integers, Sequences, FiniteSets, TLC

VARIABLES
    pc,     \* "idle", "made", "encoded", "decoded", "received"
    val,    \* the typed value handed to the serializer (None when the input is raw JSON)
    wire,   \* Ok(json) / Err(msg): the serializer's result, or the received JSON
    dec     \* the deserializers' results on the wire, one field per target type

vars == <<pc, val, wire, dec>>

----------------------------------------------------------------------------
(* Bounds of the exploration.                                              *)

\* longest positional params array that is enumerated
MaxArr == 2
\* numeric ids 0..MaxId are enumerated
MaxId == 1
\* most key/value pairs in a received JSON object
MaxFields == 4
\* longest batch that is enumerated
MaxBatch == 3

----------------------------------------------------------------------------
(* Option and Result.                                                      *)

\* A value of a sum type is a record with one field, named after the variant.
Kind(x) == CHOOSE f \in DOMAIN x : TRUE

None == [none |-> TRUE]
Some(x) == [some |-> x]
IsNone(o) == Kind(o) = "none"
IsSome(o) == Kind(o) = "some"
\* Option<Option<T>>: the field was present and held JSON null.
IsExplicitNull(o) == IsSome(o) /\ IsNone(o.some)
Ok(x) == [ok |-> x]
Err(msg) == [err |-> msg]
IsOk(r) == Kind(r) = "ok"
IsErr(r) == Kind(r) = "err"

\* The ? operator: the first error ends the computation.
AndThen(r, F(_)) == IF IsErr(r) THEN r ELSE F(r.ok)
\* Result::map
MapOk(r, F(_)) == IF IsErr(r) THEN r ELSE Ok(F(r.ok))
\* A derived untagged enum of two variants: the first variant that reads wins.
Untagged(first, second, msg) ==
    IF IsOk(first) THEN first ELSE IF IsOk(second) THEN second ELSE Err(msg)

----------------------------------------------------------------------------
(* The JSON tree (serde_json::Value).  JFrac stands for a number with a    *)
(* fractional part; v holds its tenths (12 is 1.2).                        *)

JNull == [null |-> TRUE]
JBool(b) == [bool |-> b]
JNum(n) == [num |-> n]
JFrac(t) == [frac |-> t]
JStr(s) == [str |-> s]
JArr(s) == [arr |-> s]
JObj(pairs) == [obj |-> pairs]

\* All sequences over S of length at most n.
SeqsUpTo(S, n) == UNION {[1..m -> S] : m \in 0..n}

\* The keys of an object, in order of appearance.
Keys(pairs) == [i \in 1..Len(pairs) |-> pairs[i][1]]
HasKey(pairs, key) == \E i \in 1..Len(pairs) : pairs[i][1] = key
\* The value of the first pair with this key (the key must occur).
ValueOf(pairs, key) ==
    pairs[CHOOSE i \in 1..Len(pairs) :
            /\ pairs[i][1] = key
            /\ \A j \in 1..(i - 1) : pairs[j][1] # key][2]

----------------------------------------------------------------------------
(* Version (src/version.rs).                                               *)

V2_0 == "V2_0"

VersionSerialize(version) == JStr("2.0")

\* VersionDeserialize that also takes the short form of the tag.
VersionDeserializeShort(j) ==
    IF Kind(j) # "str" THEN Err("invalid type: expected a string")
    ELSE IF j.str \in {"2.0", "2"} THEN Ok(V2_0)
    ELSE Err("invalid version")

VersionDeserialize(j) ==
    IF Kind(j) # "str" THEN Err("invalid type: expected a string")
    ELSE IF j.str = "2.0" THEN Ok(V2_0)
    ELSE Err("invalid version")

\* Option<Version> as a field value.
OptVersionSerialize(o) == IF IsNone(o) THEN JNull ELSE VersionSerialize(o.some)

----------------------------------------------------------------------------
(* Id (src/id.rs): untagged enum, variants tried in the order Null, Num,   *)
(* Str.                                                                    *)

IdNull == [Null |-> TRUE]
IdNum(n) == [Num |-> n]
IdStr(s) == [Str |-> s]

IdSerialize(id) ==
    CASE Kind(id) = "Null" -> JNull
      [] Kind(id) = "Num" -> JNum(id.Num)
      [] Kind(id) = "Str" -> JStr(id.Str)

\* IdDeserialize that reads the string "1" as the number it spells.
IdDeserializeCoerce(j) ==
    IF Kind(j) = "null" THEN Ok(IdNull)
    ELSE IF Kind(j) = "num" /\ j.num >= 0 THEN Ok(IdNum(j.num))
    ELSE IF Kind(j) = "str" THEN (IF j.str = "1" THEN Ok(IdNum(1)) ELSE Ok(IdStr(j.str)))
    ELSE Err("data did not match any variant of untagged enum Id")

IdDeserialize(j) ==
    IF Kind(j) = "null" THEN Ok(IdNull)
    ELSE IF Kind(j) = "num" /\ j.num >= 0 THEN Ok(IdNum(j.num))
    ELSE IF Kind(j) = "str" THEN Ok(IdStr(j.str))
    ELSE Err("data did not match any variant of untagged enum Id")

\* Option<Id>: JSON null is None, never Some(Id::Null).
OptIdSerialize(o) == IF IsNone(o) THEN JNull ELSE IdSerialize(o.some)

OptIdDeserialize(j) ==
    IF Kind(j) = "null" THEN Ok(None) ELSE MapOk(IdDeserialize(j), Some)

----------------------------------------------------------------------------
(* Params (src/request/params.rs): untagged enum, Array tried before Map.  *)
(* A Map is a set of <<key, value>> pairs with distinct keys.              *)

ParamsArray(s) == [Array |-> s]
ParamsMap(m) == [Map |-> m]

is_array(p) == Kind(p) = "Array"
is_map(p) == Kind(p) = "Map"

\* The order in which a Map's keys are written.
KeyOrder == <<"a", "b">>

RECURSIVE MapToPairs(_, _)
MapToPairs(m, i) ==
    IF i > Len(KeyOrder) THEN <<>>
    ELSE LET here == {e \in m : e[1] = KeyOrder[i]}
         IN  (IF here = {} THEN <<>> ELSE <<CHOOSE e \in here : TRUE>>)
                \o MapToPairs(m, i + 1)

\* Inserting the pairs of an object one by one: a repeated key keeps the last value.
RECURSIVE MapFromPairs(_, _)
MapFromPairs(pairs, m) ==
    IF pairs = <<>> THEN m
    ELSE MapFromPairs(Tail(pairs),
            {e \in m : e[1] # Head(pairs)[1]} \cup {<<Head(pairs)[1], Head(pairs)[2]>>})

\* serde_json::Value read from a JSON text: an object becomes a map, so a
\* repeated key keeps its last value and the keys are written back in map order.
RECURSIVE ValueDeserialize(_)
ValueDeserialize(j) ==
    CASE Kind(j) = "arr" -> JArr([i \in 1..Len(j.arr) |-> ValueDeserialize(j.arr[i])])
      [] Kind(j) = "obj" ->
            JObj(MapToPairs(MapFromPairs(
                [i \in 1..Len(j.obj) |-> <<j.obj[i][1], ValueDeserialize(j.obj[i][2])>>],
                {}), 1))
      [] OTHER -> j

\* A Value writes as the tree it holds.
ValueSerialize(v) == v

\* Option<Value> as a field value.
OptValueSerialize(o) == IF IsNone(o) THEN JNull ELSE ValueSerialize(o.some)

OptValueDeserialize(j) ==
    IF Kind(j) = "null" THEN None ELSE Some(ValueDeserialize(j))

ParamsSerialize(p) ==
    IF is_array(p) THEN JArr(p.Array) ELSE JObj(MapToPairs(p.Map, 1))

ParamsDeserialize(j) ==
    IF Kind(j) = "arr" THEN Ok(ParamsArray(ValueDeserialize(j).arr))
    ELSE IF Kind(j) = "obj" THEN
        Ok(ParamsMap(MapFromPairs(
            [i \in 1..Len(j.obj) |-> <<j.obj[i][1], ValueDeserialize(j.obj[i][2])>>], {})))
    ELSE Err("data did not match any variant of untagged enum Params")

\* The Params of src/params.rs has a third variant for a call without params.
ParamsNone == [None |-> TRUE]

\* Untagged: the unit variant is written as null.
ParamsWithNoneSerialize(p) ==
    IF Kind(p) = "None" THEN JNull ELSE ParamsSerialize(p)

\* Untagged: the variants are tried in the order None, Array, Map, and the
\* unit variant takes JSON null.
ParamsWithNoneDeserialize(j) ==
    IF Kind(j) = "null" THEN Ok(ParamsNone) ELSE ParamsDeserialize(j)

\* From<Params> for JsonValue, of either Params.
ParamsIntoValue(p) ==
    CASE Kind(p) = "None" -> JNull
      [] Kind(p) = "Array" -> JArr(p.Array)
      [] Kind(p) = "Map" -> JObj(MapToPairs(p.Map, 1))

StringDeserialize(j) ==
    IF Kind(j) = "str" THEN Ok(j.str) ELSE Err("invalid type: expected a string")

----------------------------------------------------------------------------
(* Request envelopes (src/request/mod.rs).                                 *)

MethodCall(jsonrpc, method, params, id) ==
    [k |-> "MethodCall", jsonrpc |-> jsonrpc, method |-> method,
     params |-> params, id |-> id]

Notification(jsonrpc, method, params) ==
    [k |-> "Notification", jsonrpc |-> jsonrpc, method |-> method, params |-> params]

\* What a call of a constructor ends in: the value it returns, or a panic.
Returned(v) == [returned |-> v]
Panic(msg) == [panic |-> msg]

\* MethodCall::new_v1 without its assertion.
MethodCallNewV1Unchecked(method, params, id) ==
    Returned(MethodCall(None, method, Some(params), id))

MethodCallNewV1(method, params, id) ==
    IF ~is_array(params) THEN Panic("params must be an array of objects for JSON-RPC 1.0")
    ELSE Returned(MethodCall(None, method, Some(params), id))

MethodCallNewV2(method, params, id) == Returned(MethodCall(Some(V2_0), method, params, id))

NotificationNewV1(method, params) ==
    IF ~is_array(params) THEN Panic("params must be an array of objects for JSON-RPC 1.0")
    ELSE Returned(Notification(None, method, Some(params)))

NotificationNewV2(method, params) == Returned(Notification(Some(V2_0), method, params))

CallMethodCall(m) == [MethodCall |-> m]
CallNotification(n) == [Notification |-> n]
RequestSingle(c) == [Single |-> c]
RequestBatch(cs) == [Batch |-> cs]

----------------------------------------------------------------------------
(* Request codec (src/request/compat.rs).                                  *)

\* Field identifiers of a request object.
FieldVisitor(key) ==
    CASE key = "jsonrpc" -> Ok("jsonrpc")
      [] key = "method" -> Ok("method")
      [] key = "params" -> Ok("params")
      [] key = "id" -> Ok("id")
      [] OTHER -> Err("unknown field")

\* ScanField without the duplicate test: a repeated field overwrites.
ScanFieldOverwrite(acc, field, r) ==
    IF IsErr(r) THEN r ELSE Ok([acc EXCEPT ![field] = Some(r.ok)])

\* ScanField that keeps the first value of a repeated field.
ScanFieldKeepFirst(acc, field, r) ==
    IF IsSome(acc[field]) THEN Ok(acc)
    ELSE IF IsErr(r) THEN r
    ELSE Ok([acc EXCEPT ![field] = Some(r.ok)])

\* One arm of the scan loop: a field seen before is an error, and the
\* duplicate test comes before the value is decoded.
ScanField(acc, field, r) ==
    IF IsSome(acc[field]) THEN Err("duplicate field")
    ELSE IF IsErr(r) THEN r
    ELSE Ok([acc EXCEPT ![field] = Some(r.ok)])

RequestAcc == [jsonrpc |-> None, method |-> None, params |-> None, id |-> None]

\* MethodCallSerialize without the 1.0 shape check on params.
MethodCallSerializeAnyParams(m) ==
    Ok(JObj((IF IsSome(m.jsonrpc) THEN << <<"jsonrpc", OptVersionSerialize(m.jsonrpc)>> >>
             ELSE <<>>)
            \o << <<"method", JStr(m.method)>> >>
            \o (IF IsSome(m.params) THEN << <<"params", ParamsSerialize(m.params.some)>> >>
                ELSE <<>>)
            \o << <<"id", IdSerialize(m.id)>> >>))

\* MethodCallSerialize writing the id before the params.
MethodCallSerializeIdFirst(m) ==
    IF IsNone(m.jsonrpc) /\ IsNone(m.params) THEN Err("missing field params")
    ELSE IF IsNone(m.jsonrpc) /\ is_map(m.params.some)
        THEN Err("JSON-RPC v1 params must be an array of objects")
    ELSE Ok(JObj((IF IsSome(m.jsonrpc)
                    THEN << <<"jsonrpc", OptVersionSerialize(m.jsonrpc)>> >> ELSE <<>>)
                 \o << <<"method", JStr(m.method)>>, <<"id", IdSerialize(m.id)>> >>
                 \o (IF IsSome(m.params)
                        THEN << <<"params", ParamsSerialize(m.params.some)>> >> ELSE <<>>)))

MethodCallSerialize(m) ==
    IF IsSome(m.jsonrpc) THEN
        IF IsSome(m.params) THEN
            Ok(JObj(<< <<"jsonrpc", OptVersionSerialize(m.jsonrpc)>>,
                       <<"method", JStr(m.method)>>,
                       <<"params", ParamsSerialize(m.params.some)>>,
                       <<"id", IdSerialize(m.id)>> >>))
        ELSE
            Ok(JObj(<< <<"jsonrpc", OptVersionSerialize(m.jsonrpc)>>,
                       <<"method", JStr(m.method)>>,
                       <<"id", IdSerialize(m.id)>> >>))
    ELSE
        IF IsNone(m.params) THEN Err("missing field params")
        ELSE IF is_map(m.params.some) THEN Err("JSON-RPC v1 params must be an array of objects")
        ELSE Ok(JObj(<< <<"method", JStr(m.method)>>,
                        <<"params", ParamsSerialize(m.params.some)>>,
                        <<"id", IdSerialize(m.id)>> >>))

\* The match on the key inside the scan loop of MethodCall.
MethodCallField(acc, field, j) ==
    CASE field = "jsonrpc" -> ScanField(acc, "jsonrpc", VersionDeserialize(j))
      [] field = "method" -> ScanField(acc, "method", StringDeserialize(j))
      [] field = "params" -> ScanField(acc, "params", ParamsDeserialize(j))
      [] field = "id" -> ScanField(acc, "id", IdDeserialize(j))

\* The scan loop: one pass over the pairs, stopping at the first error.
RECURSIVE MethodCallScan(_, _)
MethodCallScan(pairs, acc) ==
    IF pairs = <<>> THEN Ok(acc)
    ELSE AndThen(
            AndThen(FieldVisitor(Head(pairs)[1]),
                    LAMBDA field : MethodCallField(acc, field, Head(pairs)[2])),
            LAMBDA next : MethodCallScan(Tail(pairs), next))

\* MethodCallParams that insists on params in 2.0 as well.
MethodCallParamsRequired(acc) ==
    IF IsNone(acc.params) THEN Err("Incompatible with JSON-RPC v1 and v2 specification")
    ELSE IF IsSome(acc.jsonrpc) \/ is_array(acc.params.some) THEN Ok(acc.params)
    ELSE Err("JSON-RPC v1 params must be an array of objects")

\* MethodCallParams that lets a 1.0 call go without params.
MethodCallParamsOptional(acc) ==
    IF IsSome(acc.jsonrpc) \/ IsNone(acc.params) THEN Ok(acc.params)
    ELSE IF is_array(acc.params.some) THEN Ok(acc.params)
    ELSE Err("JSON-RPC v1 params must be an array of objects")

\* MethodCallParams that takes 1.0 params of any shape.
MethodCallParamsAnyShape(acc) ==
    IF IsSome(acc.jsonrpc) \/ IsSome(acc.params) THEN Ok(acc.params)
    ELSE Err("Incompatible with JSON-RPC v1 and v2 specification")

\* The dialect validation that follows the scan.
MethodCallParams(acc) ==
    IF IsSome(acc.jsonrpc) THEN Ok(acc.params)
    ELSE IF IsSome(acc.params) THEN
        IF is_array(acc.params.some) THEN Ok(acc.params)
        ELSE Err("JSON-RPC v1 params must be an array of objects")
    ELSE Err("Incompatible with JSON-RPC v1 and v2 specification")

MethodCallValidate(acc) ==
    AndThen(MethodCallParams(acc),
            LAMBDA params :
                IF IsNone(acc.method) THEN Err("missing field method")
                ELSE IF IsNone(acc.id) THEN Err("missing field id")
                ELSE Ok(MethodCall(acc.jsonrpc, acc.method.some, params, acc.id.some)))

MethodCallDeserialize(j) ==
    IF Kind(j) # "obj" THEN Err("invalid type: expected struct MethodCall")
    ELSE AndThen(MethodCallScan(j.obj, RequestAcc), MethodCallValidate)

\* NotificationSerialize that leaves the id out in 1.0 as it does in 2.0.
NotificationSerializeOmitId(n) ==
    IF IsNone(n.jsonrpc) /\ IsNone(n.params)
        THEN Err("Incompatible with JSON-RPC v1 and v2 specification")
    ELSE IF IsNone(n.jsonrpc) /\ is_map(n.params.some)
        THEN Err("JSON-RPC v1 params must be an array of objects")
    ELSE Ok(JObj((IF IsSome(n.jsonrpc)
                    THEN << <<"jsonrpc", OptVersionSerialize(n.jsonrpc)>> >> ELSE <<>>)
                 \o << <<"method", JStr(n.method)>> >>
                 \o (IF IsSome(n.params)
                        THEN << <<"params", ParamsSerialize(n.params.some)>> >> ELSE <<>>)))

NotificationSerialize(n) ==
    IF IsSome(n.jsonrpc) /\ IsSome(n.params) THEN
        Ok(JObj(<< <<"jsonrpc", OptVersionSerialize(n.jsonrpc)>>,
                   <<"method", JStr(n.method)>>,
                   <<"params", ParamsSerialize(n.params.some)>> >>))
    ELSE IF IsSome(n.jsonrpc) THEN
        Ok(JObj(<< <<"jsonrpc", OptVersionSerialize(n.jsonrpc)>>,
                   <<"method", JStr(n.method)>> >>))
    ELSE IF IsSome(n.params) THEN
        IF is_map(n.params.some) THEN Err("JSON-RPC v1 params must be an array of objects")
        ELSE Ok(JObj(<< <<"method", JStr(n.method)>>,
                        <<"params", ParamsSerialize(n.params.some)>>,
                        <<"id", OptIdSerialize(None)>> >>))
    ELSE Err("Incompatible with JSON-RPC v1 and v2 specification")

\* The match on the key inside the scan loop of Notification: the id is an Option<Id>.
NotificationField(acc, field, j) ==
    CASE field = "jsonrpc" -> ScanField(acc, "jsonrpc", VersionDeserialize(j))
      [] field = "method" -> ScanField(acc, "method", StringDeserialize(j))
      [] field = "params" -> ScanField(acc, "params", ParamsDeserialize(j))
      [] field = "id" -> ScanField(acc, "id", OptIdDeserialize(j))

RECURSIVE NotificationScan(_, _)
NotificationScan(pairs, acc) ==
    IF pairs = <<>> THEN Ok(acc)
    ELSE AndThen(
            AndThen(FieldVisitor(Head(pairs)[1]),
                    LAMBDA field : NotificationField(acc, field, Head(pairs)[2])),
            LAMBDA next : NotificationScan(Tail(pairs), next))

\* Here acc.id is an Option<Option<Id>>: Some(None) is an explicit "id":null.
NotificationParams(acc) ==
    IF IsSome(acc.jsonrpc) THEN
        IF IsNone(acc.id) THEN Ok(acc.params)
        ELSE Err("JSON-RPC v2 notification must not contain id")
    ELSE IF IsSome(acc.params) /\ IsExplicitNull(acc.id) THEN
        IF is_array(acc.params.some) THEN Ok(acc.params)
        ELSE Err("JSON-RPC v1 params must be an array of objects, id must be null")
    ELSE Err("Incompatible with JSON-RPC v1 and v2 specification")

NotificationValidate(acc) ==
    IF IsNone(acc.method) THEN Err("missing field method")
    ELSE AndThen(NotificationParams(acc),
                 LAMBDA params : Ok(Notification(acc.jsonrpc, acc.method.some, params)))

NotificationDeserialize(j) ==
    IF Kind(j) # "obj" THEN Err("invalid type: expected struct Notification")
    ELSE AndThen(NotificationScan(j.obj, RequestAcc), NotificationValidate)

\* Call is an untagged enum: it writes as its content, and reads by trying
\* MethodCall first and Notification second.
CallSerialize(c) ==
    IF Kind(c) = "MethodCall" THEN MethodCallSerialize(c.MethodCall)
    ELSE NotificationSerialize(c.Notification)

CallDeserialize(j) ==
    Untagged(MapOk(MethodCallDeserialize(j), CallMethodCall),
             MapOk(NotificationDeserialize(j), CallNotification),
             "data did not match any variant of untagged enum Call")

\* Vec<Call>: element by element, in order; the first failure fails the whole.
RECURSIVE CallsSerialize(_)
CallsSerialize(cs) ==
    IF cs = <<>> THEN Ok(<<>>)
    ELSE AndThen(CallSerialize(Head(cs)),
                 LAMBDA h : MapOk(CallsSerialize(Tail(cs)), LAMBDA t : <<h>> \o t))

RECURSIVE CallsDeserialize(_)
CallsDeserialize(js) ==
    IF js = <<>> THEN Ok(<<>>)
    ELSE AndThen(CallDeserialize(Head(js)),
                 LAMBDA h : MapOk(CallsDeserialize(Tail(js)), LAMBDA t : <<h>> \o t))

VecCallDeserialize(j) ==
    IF Kind(j) = "arr" THEN CallsDeserialize(j.arr) ELSE Err("invalid type: expected a sequence")

\* Request is an untagged enum: Single is tried before Batch.
RequestSerialize(r) ==
    IF Kind(r) = "Single" THEN CallSerialize(r.Single)
    ELSE MapOk(CallsSerialize(r.Batch), JArr)

RequestDeserialize(j) ==
    Untagged(MapOk(CallDeserialize(j), RequestSingle),
             MapOk(VecCallDeserialize(j), RequestBatch),
             "data did not match any variant of untagged enum Request")

----------------------------------------------------------------------------
(* Error object of a failure response: {code, message, data?}.             *)

Error(code, message, data) == [code |-> code, message |-> message, data |-> data]

ErrorSerialize(e) ==
    JObj(<< <<"code", JNum(e.code)>>, <<"message", JStr(e.message)>> >>
         \o (IF IsNone(e.data) THEN <<>> ELSE << <<"data", ValueSerialize(e.data.some)>> >>))

ErrorAcc == [code |-> None, message |-> None, data |-> None]

ErrorField(acc, key, j) ==
    IF key \notin {"code", "message", "data"} THEN Err("unknown field")
    ELSE IF IsSome(acc[key]) THEN Err("duplicate field")
    ELSE IF key = "code" /\ Kind(j) # "num" THEN Err("invalid type: expected an integer")
    ELSE IF key = "message" /\ Kind(j) # "str" THEN Err("invalid type: expected a string")
    ELSE Ok([acc EXCEPT ![key] = CASE key = "code" -> Some(j.num)
                                   [] key = "message" -> Some(j.str)
                                   [] key = "data" -> Some(OptValueDeserialize(j))])

RECURSIVE ErrorScan(_, _)
ErrorScan(pairs, acc) ==
    IF pairs = <<>> THEN Ok(acc)
    ELSE AndThen(ErrorField(acc, Head(pairs)[1], Head(pairs)[2]),
                 LAMBDA next : ErrorScan(Tail(pairs), next))

ErrorValidate(acc) ==
    IF IsNone(acc.code) THEN Err("missing field code")
    ELSE IF IsNone(acc.message) THEN Err("missing field message")
    ELSE Ok(Error(acc.code.some, acc.message.some, IF IsNone(acc.data) THEN None ELSE acc.data.some))

ErrorDeserialize(j) ==
    IF Kind(j) # "obj" THEN Err("invalid type: expected struct Error")
    ELSE AndThen(ErrorScan(j.obj, ErrorAcc), ErrorValidate)

\* Option<Error> as a field value.
OptErrorSerialize(o) == IF IsNone(o) THEN JNull ELSE ErrorSerialize(o.some)

OptErrorDeserialize(j) ==
    IF Kind(j) = "null" THEN Ok(None) ELSE MapOk(ErrorDeserialize(j), Some)

----------------------------------------------------------------------------
(* Response envelopes (src/response/mod.rs).                               *)

Success(jsonrpc, result, id) ==
    [k |-> "Success", jsonrpc |-> jsonrpc, result |-> result, id |-> id]

Failure(jsonrpc, error, id) ==
    [k |-> "Failure", jsonrpc |-> jsonrpc, error |-> error, id |-> id]

OutputSuccess(s) == [Success |-> s]
OutputFailure(f) == [Failure |-> f]
ResponseSingle(o) == [Single |-> o]
ResponseBatch(os) == [Batch |-> os]

----------------------------------------------------------------------------
(* Response codec (src/response/compat.rs).                                *)

ResponseFieldVisitor(key) ==
    CASE key = "jsonrpc" -> Ok("jsonrpc")
      [] key = "result" -> Ok("result")
      [] key = "error" -> Ok("error")
      [] key = "id" -> Ok("id")
      [] OTHER -> Err("unknown field")

ResponseAcc == [jsonrpc |-> None, result |-> None, error |-> None, id |-> None]

\* SuccessSerialize that leaves the inactive error out in 1.0 as it does in 2.0.
SuccessSerializeNoError(s) ==
    Ok(JObj((IF IsSome(s.jsonrpc) THEN << <<"jsonrpc", OptVersionSerialize(s.jsonrpc)>> >>
             ELSE <<>>)
            \o << <<"result", ValueSerialize(s.result)>>, <<"id", IdSerialize(s.id)>> >>))

SuccessSerialize(s) ==
    IF IsSome(s.jsonrpc) THEN
        Ok(JObj(<< <<"jsonrpc", OptVersionSerialize(s.jsonrpc)>>,
                   <<"result", ValueSerialize(s.result)>>,
                   <<"id", IdSerialize(s.id)>> >>))
    ELSE
        Ok(JObj(<< <<"result", ValueSerialize(s.result)>>,
                   <<"error", OptErrorSerialize(None)>>,
                   <<"id", IdSerialize(s.id)>> >>))

\* The match on the key inside the scan loop of Success: the error is an Option<Error>.
SuccessField(acc, field, j) ==
    CASE field = "jsonrpc" -> ScanField(acc, "jsonrpc", VersionDeserialize(j))
      [] field = "result" -> ScanField(acc, "result", Ok(ValueDeserialize(j)))
      [] field = "error" -> ScanField(acc, "error", OptErrorDeserialize(j))
      [] field = "id" -> ScanField(acc, "id", IdDeserialize(j))

RECURSIVE SuccessScan(_, _)
SuccessScan(pairs, acc) ==
    IF pairs = <<>> THEN Ok(acc)
    ELSE AndThen(
            AndThen(ResponseFieldVisitor(Head(pairs)[1]),
                    LAMBDA field : SuccessField(acc, field, Head(pairs)[2])),
            LAMBDA next : SuccessScan(Tail(pairs), next))

\* SuccessResult that does not look at the error in 2.0.
SuccessResultIgnoreError(acc) ==
    IF IsSome(acc.jsonrpc) /\ IsSome(acc.result) THEN Ok(acc.result.some)
    ELSE IF IsNone(acc.jsonrpc) /\ IsSome(acc.result) /\ IsExplicitNull(acc.error)
        THEN Ok(acc.result.some)
    ELSE Err("Incompatible with JSON-RPC v1 and v2 specification")

\* SuccessResult that takes an explicit "error":null for no error in 2.0 too.
SuccessResultNullIsAbsent(acc) ==
    IF IsSome(acc.jsonrpc) /\ IsSome(acc.result)
            /\ (IsNone(acc.error) \/ IsExplicitNull(acc.error)) THEN Ok(acc.result.some)
    ELSE IF IsNone(acc.jsonrpc) /\ IsSome(acc.result) /\ IsExplicitNull(acc.error)
        THEN Ok(acc.result.some)
    ELSE Err("Incompatible with JSON-RPC v1 and v2 specification")

\* SuccessResult that takes a 1.0 object with any error field.
SuccessResultAnyError(acc) ==
    IF IsSome(acc.jsonrpc) /\ IsSome(acc.result) /\ IsNone(acc.error) THEN Ok(acc.result.some)
    ELSE IF IsNone(acc.jsonrpc) /\ IsSome(acc.result) /\ IsSome(acc.error)
        THEN Ok(acc.result.some)
    ELSE Err("Incompatible with JSON-RPC v1 and v2 specification")

\* Here acc.error is an Option<Option<Error>>: Some(None) is an explicit "error":null.
SuccessResult(acc) ==
    IF IsSome(acc.jsonrpc) /\ IsSome(acc.result) /\ IsNone(acc.error) THEN Ok(acc.result.some)
    ELSE IF IsNone(acc.jsonrpc) /\ IsSome(acc.result) /\ IsExplicitNull(acc.error)
        THEN Ok(acc.result.some)
    ELSE Err("Incompatible with JSON-RPC v1 and v2 specification")

\* SuccessValidate that takes a missing id for Id::Null.
SuccessValidateDefaultId(acc) ==
    AndThen(SuccessResult(acc),
            LAMBDA result :
                Ok(Success(acc.jsonrpc, result, IF IsNone(acc.id) THEN IdNull ELSE acc.id.some)))

SuccessValidate(acc) ==
    AndThen(SuccessResult(acc),
            LAMBDA result :
                IF IsNone(acc.id) THEN Err("missing field id")
                ELSE Ok(Success(acc.jsonrpc, result, acc.id.some)))

SuccessDeserialize(j) ==
    IF Kind(j) # "obj" THEN Err("invalid type: expected struct SuccessResponse")
    ELSE AndThen(SuccessScan(j.obj, ResponseAcc), SuccessValidate)

FailureSerialize(f) ==
    IF IsSome(f.jsonrpc) THEN
        Ok(JObj(<< <<"jsonrpc", OptVersionSerialize(f.jsonrpc)>>,
                   <<"error", ErrorSerialize(f.error)>>,
                   <<"id", IdSerialize(f.id)>> >>))
    ELSE
        Ok(JObj(<< <<"error", ErrorSerialize(f.error)>>,
                   <<"result", OptValueSerialize(None)>>,
                   <<"id", IdSerialize(f.id)>> >>))

\* The match on the key inside the scan loop of Failure: the result is an Option<Value>.
FailureField(acc, field, j) ==
    CASE field = "jsonrpc" -> ScanField(acc, "jsonrpc", VersionDeserialize(j))
      [] field = "result" -> ScanField(acc, "result", Ok(OptValueDeserialize(j)))
      [] field = "error" -> ScanField(acc, "error", ErrorDeserialize(j))
      [] field = "id" -> ScanField(acc, "id", IdDeserialize(j))

RECURSIVE FailureScan(_, _)
FailureScan(pairs, acc) ==
    IF pairs = <<>> THEN Ok(acc)
    ELSE AndThen(
            AndThen(ResponseFieldVisitor(Head(pairs)[1]),
                    LAMBDA field : FailureField(acc, field, Head(pairs)[2])),
            LAMBDA next : FailureScan(Tail(pairs), next))

\* FailureError that asks for the error alone in 1.0, whatever the result.
FailureErrorAlone(acc) ==
    IF IsSome(acc.jsonrpc) /\ IsNone(acc.result) /\ IsSome(acc.error) THEN Ok(acc.error.some)
    ELSE IF IsNone(acc.jsonrpc) /\ IsSome(acc.error) THEN Ok(acc.error.some)
    ELSE Err("Incompatible with JSON-RPC v1 and v2 specification")

\* FailureError with the 2.0 arm repeated for 1.0: result must be absent.
FailureErrorResultAbsent(acc) ==
    IF IsNone(acc.result) /\ IsSome(acc.error) THEN Ok(acc.error.some)
    ELSE Err("Incompatible with JSON-RPC v1 and v2 specification")

\* Here acc.result is an Option<Option<Value>>: Some(None) is an explicit "result":null.
FailureError(acc) ==
    IF IsSome(acc.jsonrpc) /\ IsNone(acc.result) /\ IsSome(acc.error) THEN Ok(acc.error.some)
    ELSE IF IsNone(acc.jsonrpc) /\ IsExplicitNull(acc.result) /\ IsSome(acc.error)
        THEN Ok(acc.error.some)
    ELSE Err("Incompatible with JSON-RPC v1 and v2 specification")

FailureValidate(acc) ==
    AndThen(FailureError(acc),
            LAMBDA error :
                IF IsNone(acc.id) THEN Err("missing field id")
                ELSE Ok(Failure(acc.jsonrpc, error, acc.id.some)))

FailureDeserialize(j) ==
    IF Kind(j) # "obj" THEN Err("invalid type: expected struct FailureResponse")
    ELSE AndThen(FailureScan(j.obj, ResponseAcc), FailureValidate)

\* Output is an untagged enum: Success is tried before Failure.
OutputSerialize(o) ==
    IF Kind(o) = "Success" THEN SuccessSerialize(o.Success) ELSE FailureSerialize(o.Failure)

OutputDeserialize(j) ==
    Untagged(MapOk(SuccessDeserialize(j), OutputSuccess),
             MapOk(FailureDeserialize(j), OutputFailure),
             "data did not match any variant of untagged enum Output")

RECURSIVE OutputsSerialize(_)
OutputsSerialize(os) ==
    IF os = <<>> THEN Ok(<<>>)
    ELSE AndThen(OutputSerialize(Head(os)),
                 LAMBDA h : MapOk(OutputsSerialize(Tail(os)), LAMBDA t : <<h>> \o t))

RECURSIVE OutputsDeserialize(_)
OutputsDeserialize(js) ==
    IF js = <<>> THEN Ok(<<>>)
    ELSE AndThen(OutputDeserialize(Head(js)),
                 LAMBDA h : MapOk(OutputsDeserialize(Tail(js)), LAMBDA t : <<h>> \o t))

VecOutputDeserialize(j) ==
    IF Kind(j) = "arr" THEN OutputsDeserialize(j.arr) ELSE Err("invalid type: expected a sequence")

\* Output::id
OutputId(o) == IF Kind(o) = "Success" THEN o.Success.id ELSE o.Failure.id

\* Output::version
OutputVersion(o) == IF Kind(o) = "Success" THEN o.Success.jsonrpc ELSE o.Failure.jsonrpc

SuccessNew(jsonrpc, result, id) == Success(jsonrpc, result, id)
FailureNew(jsonrpc, error, id) == Failure(jsonrpc, error, id)

\* Error::new(ErrorCode::InvalidRequest)
ErrorNewInvalidRequest == Error(-32600, "Invalid request", None)

\* Output::new that forgets the version it is given.
OutputNewNoVersion(jsonrpc, result, id) ==
    IF IsOk(result) THEN OutputSuccess(SuccessNew(None, result.ok, id))
    ELSE OutputFailure(FailureNew(None, result.err, id))

\* Output::new: result is a Result<Value, Error>.
OutputNew(jsonrpc, result, id) ==
    IF IsOk(result) THEN OutputSuccess(SuccessNew(jsonrpc, result.ok, id))
    ELSE OutputFailure(FailureNew(jsonrpc, result.err, id))

OutputInvalidRequest(jsonrpc, id) ==
    OutputFailure(FailureNew(jsonrpc, ErrorNewInvalidRequest, id))

\* Response is an untagged enum: Single is tried before Batch.
ResponseSerialize(r) ==
    IF Kind(r) = "Single" THEN OutputSerialize(r.Single)
    ELSE MapOk(OutputsSerialize(r.Batch), JArr)

ResponseDeserialize(j) ==
    Untagged(MapOk(OutputDeserialize(j), ResponseSingle),
             MapOk(VecOutputDeserialize(j), ResponseBatch),
             "data did not match any variant of untagged enum Response")

----------------------------------------------------------------------------
(* The 1.0-only response module (src/v1/response.rs): one Output struct    *)
(* with an optional result and an optional error.                          *)

V1Output(result, error, id) ==
    [k |-> "v1::Output", result |-> result, error |-> error, id |-> id]

V1OutputSuccess(result, id) == V1Output(Some(result), None, id)
V1OutputFailure(error, id) == V1Output(None, Some(error), id)

V1FieldVisitor(key) ==
    CASE key = "result" -> Ok("result")
      [] key = "error" -> Ok("error")
      [] key = "id" -> Ok("id")
      [] OTHER -> Err("unknown field")

V1Acc == [result |-> None, error |-> None, id |-> None]

\* The derived serializer writes the three fields in declaration order.
V1OutputSerialize(o) ==
    Ok(JObj(<< <<"result", OptValueSerialize(o.result)>>,
               <<"error", OptErrorSerialize(o.error)>>,
               <<"id", IdSerialize(o.id)>> >>))

V1OutputField(acc, field, j) ==
    CASE field = "result" -> ScanField(acc, "result", Ok(OptValueDeserialize(j)))
      [] field = "error" -> ScanField(acc, "error", OptErrorDeserialize(j))
      [] field = "id" -> ScanField(acc, "id", IdDeserialize(j))

RECURSIVE V1OutputScan(_, _)
V1OutputScan(pairs, acc) ==
    IF pairs = <<>> THEN Ok(acc)
    ELSE AndThen(
            AndThen(V1FieldVisitor(Head(pairs)[1]),
                    LAMBDA field : V1OutputField(acc, field, Head(pairs)[2])),
            LAMBDA next : V1OutputScan(Tail(pairs), next))

\* V1OutputBoth that also takes an object whose two fields are null.
V1OutputBothOrNeither(acc) ==
    IF IsSome(acc.result) /\ IsSome(acc.result.some) /\ IsExplicitNull(acc.error)
        THEN Ok(<<acc.result.some, None>>)
    ELSE IF IsExplicitNull(acc.result) /\ IsSome(acc.error)
        THEN Ok(<<None, acc.error.some>>)
    ELSE Err("JSON-RPC 1.0 response MUST contain both result and error field")

\* Both fields must be present, exactly one of them holding a value.
V1OutputBoth(acc) ==
    IF IsSome(acc.result) /\ IsSome(acc.result.some) /\ IsExplicitNull(acc.error)
        THEN Ok(<<acc.result.some, None>>)
    ELSE IF IsExplicitNull(acc.result) /\ IsSome(acc.error) /\ IsSome(acc.error.some)
        THEN Ok(<<None, acc.error.some>>)
    ELSE Err("JSON-RPC 1.0 response MUST contain both result and error field")

V1OutputValidate(acc) ==
    AndThen(V1OutputBoth(acc),
            LAMBDA both :
                IF IsNone(acc.id) THEN Err("missing field id")
                ELSE Ok(V1Output(both[1], both[2], acc.id.some)))

V1OutputDeserialize(j) ==
    IF Kind(j) # "obj" THEN Err("invalid type: expected struct Output")
    ELSE AndThen(V1OutputScan(j.obj, V1Acc), V1OutputValidate)

\* v1::Output::new(result, id)
V1OutputNew(result, id) ==
    IF IsOk(result) THEN V1OutputSuccess(result.ok, id) ELSE V1OutputFailure(result.err, id)

\* v1::Output::invalid_request(id)
V1OutputInvalidRequest(id) == V1OutputFailure(ErrorNewInvalidRequest, id)

\* From<Output> for Result<Value, Error>: the third arm is unreachable!().
V1OutputIntoResult(o) ==
    IF IsSome(o.result) /\ IsNone(o.error) THEN Returned(Ok(o.result.some))
    ELSE IF IsNone(o.result) /\ IsSome(o.error) THEN Returned(Err(o.error.some))
    ELSE Panic("Invalid JSON-RPC 1.0 Response")

\* v1::Response is an untagged enum: Single is tried before Batch.
V1ResponseSingle(o) == [Single |-> o]
V1ResponseBatch(os) == [Batch |-> os]

RECURSIVE V1OutputsDeserialize(_)
V1OutputsDeserialize(js) ==
    IF js = <<>> THEN Ok(<<>>)
    ELSE AndThen(V1OutputDeserialize(Head(js)),
                 LAMBDA h : MapOk(V1OutputsDeserialize(Tail(js)), LAMBDA t : <<h>> \o t))

V1ResponseDeserialize(j) ==
    Untagged(MapOk(V1OutputDeserialize(j), V1ResponseSingle),
             MapOk(IF Kind(j) = "arr" THEN V1OutputsDeserialize(j.arr)
                   ELSE Err("invalid type: expected a sequence"),
                   V1ResponseBatch),
             "data did not match any variant of untagged enum Response")

----------------------------------------------------------------------------
(* The check for methods that take no parameters.                          *)

\* Error::invalid_params_with_details(message, details)
ErrorInvalidParamsWithDetails(message, details) ==
    Error(-32602, message, Some(details))

\* The () of a Result<(), Error>.
Unit == <<>>

\* A check that lets every array through.
expect_no_params_any_array(p) ==
    IF Kind(p) \in {"None", "Array"} THEN Ok(Unit)
    ELSE Err(ErrorInvalidParamsWithDetails("No parameters were expected", ParamsIntoValue(p)))

\* Params::expect_no_params of src/params.rs
expect_no_params(p) ==
    CASE Kind(p) = "None" -> Ok(Unit)
      [] Kind(p) = "Array" /\ p.Array = <<>> -> Ok(Unit)
      [] OTHER ->
            Err(ErrorInvalidParamsWithDetails("No parameters were expected",
                                              ParamsIntoValue(p)))

\* Params::expect_no_params_v1 of src/request/params.rs
expect_no_params_v1(p) ==
    CASE Kind(p) = "Array" /\ p.Array = <<>> -> Ok(Unit)
      [] OTHER ->
            Err(ErrorInvalidParamsWithDetails("No parameters were expected",
                                              ParamsIntoValue(p)))

----------------------------------------------------------------------------
(* The derived request codec with the Invalid call (src/request.rs).  The  *)
(* decoders are defined on JSON objects.                                   *)

DerivedMethodCall(jsonrpc, method, params, id) ==
    [k |-> "request::MethodCall", jsonrpc |-> jsonrpc, method |-> method,
     params |-> params, id |-> id]
DerivedNotification(jsonrpc, method, params) ==
    [k |-> "request::Notification", jsonrpc |-> jsonrpc, method |-> method,
     params |-> params]
CallInvalid(id) == [Invalid |-> [id |-> id]]

\* What #[serde(default)] puts in a field the object does not have.
ParamsDefault == ParamsNone
IdDefault == IdNull

\* Option<Version> as a field value.
OptVersionDeserialize(j) ==
    IF Kind(j) = "null" THEN Ok(None) ELSE MapOk(VersionDeserialize(j), Some)

\* The fields of Notification; deny_unknown_fields makes any other key an error.
DerivedNotificationFieldVisitor(key) ==
    IF key \in {"jsonrpc", "method", "params"} THEN Ok(key) ELSE Err("unknown field")

DerivedField(acc, field, j) ==
    CASE field = "jsonrpc" -> ScanField(acc, "jsonrpc", OptVersionDeserialize(j))
      [] field = "method" -> ScanField(acc, "method", StringDeserialize(j))
      [] field = "params" -> ScanField(acc, "params", ParamsWithNoneDeserialize(j))
      [] field = "id" -> ScanField(acc, "id", IdDeserialize(j))

RECURSIVE DerivedMethodCallScan(_, _)
DerivedMethodCallScan(pairs, acc) ==
    IF pairs = <<>> THEN Ok(acc)
    ELSE AndThen(
            AndThen(FieldVisitor(Head(pairs)[1]),
                    LAMBDA field : DerivedField(acc, field, Head(pairs)[2])),
            LAMBDA next : DerivedMethodCallScan(Tail(pairs), next))

RECURSIVE DerivedNotificationScan(_, _)
DerivedNotificationScan(pairs, acc) ==
    IF pairs = <<>> THEN Ok(acc)
    ELSE AndThen(
            AndThen(DerivedNotificationFieldVisitor(Head(pairs)[1]),
                    LAMBDA field : DerivedField(acc, field, Head(pairs)[2])),
            LAMBDA next : DerivedNotificationScan(Tail(pairs), next))

\* After the scan: a missing Option is None, a missing #[serde(default)]
\* field is the default, any other missing field is an error.
DerivedMethodCallBuild(acc) ==
    IF IsNone(acc.method) THEN Err("missing field method")
    ELSE IF IsNone(acc.id) THEN Err("missing field id")
    ELSE Ok(DerivedMethodCall(IF IsNone(acc.jsonrpc) THEN None ELSE acc.jsonrpc.some,
                              acc.method.some,
                              IF IsNone(acc.params) THEN ParamsDefault ELSE acc.params.some,
                              acc.id.some))

DerivedNotificationBuild(acc) ==
    IF IsNone(acc.method) THEN Err("missing field method")
    ELSE Ok(DerivedNotification(IF IsNone(acc.jsonrpc) THEN None ELSE acc.jsonrpc.some,
                                acc.method.some,
                                IF IsNone(acc.params) THEN ParamsDefault
                                ELSE acc.params.some))

DerivedMethodCallDeserialize(j) ==
    AndThen(DerivedMethodCallScan(j.obj, RequestAcc), DerivedMethodCallBuild)

DerivedNotificationDeserialize(j) ==
    AndThen(DerivedNotificationScan(j.obj, [jsonrpc |-> None, method |-> None,
                                            params |-> None]),
            DerivedNotificationBuild)

\* An Invalid variant that skips the id field like any other key.
CallInvalidScanSkipId(pairs, acc) == Ok(acc)

\* The Invalid variant has one field, id, and no deny_unknown_fields: any
\* other key is skipped, and the id is decoded as Id.
RECURSIVE CallInvalidScan(_, _)
CallInvalidScan(pairs, acc) ==
    IF pairs = <<>> THEN Ok(acc)
    ELSE AndThen(
            IF Head(pairs)[1] = "id"
                THEN ScanField(acc, "id", IdDeserialize(Head(pairs)[2]))
                ELSE Ok(acc),
            LAMBDA next : CallInvalidScan(Tail(pairs), next))

CallInvalidDeserialize(j) ==
    MapOk(CallInvalidScan(j.obj, [id |-> None]),
          LAMBDA acc : CallInvalid(IF IsNone(acc.id) THEN IdDefault ELSE acc.id.some))

\* Call is untagged: MethodCall, then Notification, then Invalid.
DerivedCallDeserialize(j) ==
    Untagged(MapOk(DerivedMethodCallDeserialize(j), CallMethodCall),
             Untagged(MapOk(DerivedNotificationDeserialize(j), CallNotification),
                      CallInvalidDeserialize(j),
                      "data did not match any variant of untagged enum Call"),
             "data did not match any variant of untagged enum Call")

\* Request is untagged: Single, then Batch, and an object is no sequence.
DerivedRequestDeserialize(j) ==
    Untagged(MapOk(DerivedCallDeserialize(j), RequestSingle),
             Err("invalid type: map, expected a sequence"),
             "data did not match any variant of untagged enum Request")

----------------------------------------------------------------------------
(* The values the exploration draws from.                                  *)

Versions == {None, Some(V2_0)}
Methods == {"foo", ""}
Ids == {IdNull} \cup {IdNum(n) : n \in 0..MaxId} \cup {IdStr("1"), IdStr("test")}

ArrayElems == {JNum(1), JBool(TRUE)}
Maps == {m \in SUBSET ({"a", "b"} \X {JStr("value")}) :
            \A e1, e2 \in m : e1[1] = e2[1] => e1 = e2}
ParamsPool == {ParamsArray(s) : s \in SeqsUpTo(ArrayElems, MaxArr)}
                \cup {ParamsMap(m) : m \in Maps}
OptParams == {None} \cup {Some(p) : p \in ParamsPool}

Values == {JNull, JBool(TRUE), JNum(1), JStr("ok"), JArr(<<JNum(1), JNull>>),
           JObj(<< <<"a", JNum(1)>> >>)}
Errors == {Error(-32700, "Parse error", None),
           Error(-32600, "Invalid request", None),
           Error(-32602, "Invalid params", Some(JStr("details")))}

\* Key/value pairs of received request objects.
RequestPairs ==
    {<<"jsonrpc", JStr("2.0")>>, <<"jsonrpc", JStr("1.0")>>,
     <<"method", JStr("foo")>>, <<"method", JNum(1)>>,
     <<"params", JArr(<<JNum(1), JBool(TRUE)>>)>>,
     <<"params", JObj(<< <<"a", JNum(1)>> >>)>>,
     <<"params", JStr("x")>>,
     <<"id", JNull>>, <<"id", JNum(1)>>, <<"id", JFrac(12)>>,
     <<"unknown", JArr(<<>>)>>}

\* The calls and the outputs that batches are made of: one of each kind and dialect.
BatchCalls ==
    {CallMethodCall(MethodCall(Some(V2_0), "foo", Some(ParamsArray(<<JNum(1)>>)), IdNum(1))),
     CallNotification(Notification(Some(V2_0), "foo", None)),
     CallMethodCall(MethodCall(None, "foo", Some(ParamsArray(<<JNum(1)>>)), IdStr("1"))),
     CallNotification(Notification(None, "foo", Some(ParamsArray(<<JBool(TRUE)>>))))}
BatchOutputs ==
    {OutputSuccess(Success(Some(V2_0), JBool(TRUE), IdNum(1))),
     OutputFailure(Failure(Some(V2_0), Error(-32700, "Parse error", None), IdNull)),
     OutputSuccess(Success(None, JNull, IdNum(1))),
     OutputFailure(Failure(None, Error(-32600, "Invalid request", None), IdStr("1")))}

\* What Output::new and Output::invalid_request are called with.
Results == {Ok(v) : v \in Values} \cup {Err(e) : e \in Errors}
InvalidRequestIds == {IdNull, IdNum(2), IdStr("1")}

\* JSON values found where an id is expected.
IdTexts == {JNull, JNum(0), JNum(1), JNum(7), JNum(-1), JFrac(12), JFrac(-5),
            JStr("1"), JStr("test"), JStr(""), JBool(TRUE), JArr(<<>>)}

\* JSON values found where params are expected: every shape of JSON.
ParamsTexts ==
    {JNull, JBool(TRUE), JNum(1), JNum(-1), JFrac(12), JStr("hello"),
     JArr(<<>>), JArr(<<JNum(1), JBool(TRUE)>>), JArr(<<JBool(TRUE), JNum(1)>>),
     JArr(<<JNull, JFrac(12), JStr("hello"), JArr(<<>>), JObj(<< <<"a", JStr("value")>> >>)>>),
     JObj(<<>>), JObj(<< <<"a", JStr("value")>> >>),
     JObj(<< <<"b", JNum(1)>>, <<"a", JArr(<<JNull>>)>> >>),
     JObj(<< <<"a", JNum(1)>>, <<"a", JNum(2)>> >>)}

\* Key/value pairs of the objects received by the codec with the Invalid call.
SalvagePairs ==
    {<<"method", JStr("foo")>>,
     <<"params", JArr(<<JNum(1), JBool(TRUE)>>)>>,
     <<"id", JNum(1)>>, <<"id", JFrac(12)>>, <<"id", JNum(-1)>>,
     <<"id", JBool(TRUE)>>, <<"id", JArr(<<>>)>>,
     <<"unknown", JArr(<<>>)>>}

\* Strings found in the jsonrpc field of received objects, and what follows the field.
VersionTexts == {"2.0", "1.0", "2", "", "2.00", " 2.0"}
TaggedRequestBodies ==
    {<< <<"method", JStr("foo")>>, <<"params", JArr(<<JNum(1), JBool(TRUE)>>)>>,
        <<"id", JNum(1)>> >>,
     << <<"method", JStr("foo")>> >>}
TaggedResponseBodies ==
    {<< <<"result", JBool(TRUE)>>, <<"id", JNum(1)>> >>,
     << <<"error", ErrorSerialize(Error(-32700, "Parse error", None))>>, <<"id", JNum(1)>> >>}

\* Key/value pairs of the objects received by the 1.0-only module.
V1ResponsePairs ==
    {<<"result", JBool(TRUE)>>, <<"result", JNull>>,
     <<"error", ErrorSerialize(Error(-32700, "Parse error", None))>>, <<"error", JNull>>,
     <<"id", JNum(1)>>,
     <<"unknown", JArr(<<>>)>>}

\* Key/value pairs of received response objects.
ResponsePairs ==
    {<<"jsonrpc", JStr("2.0")>>, <<"jsonrpc", JStr("1.0")>>,
     <<"result", JBool(TRUE)>>, <<"result", JNull>>,
     <<"error", ErrorSerialize(Error(-32700, "Parse error", None))>>, <<"error", JNull>>,
     <<"id", JNum(1)>>, <<"id", JNull>>,
     <<"unknown", JArr(<<>>)>>}

----------------------------------------------------------------------------
(* The state machine: a value is built and serialized and the text is read *)
(* back, or a JSON object arrives from outside and is read.                *)

RequestDecoders(j) ==
    [side |-> "request",
     asMethodCall |-> MethodCallDeserialize(j),
     asNotification |-> NotificationDeserialize(j),
     asCall |-> CallDeserialize(j),
     asRequest |-> RequestDeserialize(j)]

ResponseDecoders(j) ==
    [side |-> "response",
     asSuccess |-> SuccessDeserialize(j),
     asFailure |-> FailureDeserialize(j),
     asOutput |-> OutputDeserialize(j),
     asResponse |-> ResponseDeserialize(j)]

V1Decoders(j) ==
    [side |-> "v1",
     asOutput |-> V1OutputDeserialize(j),
     asResponse |-> V1ResponseDeserialize(j)]

DerivedDecoders(j) ==
    [side |-> "request.rs",
     asMethodCall |-> DerivedMethodCallDeserialize(j),
     asNotification |-> DerivedNotificationDeserialize(j),
     asCall |-> DerivedCallDeserialize(j),
     asRequest |-> DerivedRequestDeserialize(j)]

Init ==
    /\ pc = "idle"
    /\ val = None
    /\ wire = None
    /\ dec = None

\* A struct literal: the fields of the request and response types are public.
MakeMethodCall ==
    /\ pc = "idle"
    /\ \E jsonrpc \in Versions, method \in Methods, params \in OptParams, id \in Ids :
            val' = MethodCall(jsonrpc, method, params, id)
    /\ pc' = "made"
    /\ UNCHANGED <<wire, dec>>

MakeNotification ==
    /\ pc = "idle"
    /\ \E jsonrpc \in Versions, method \in Methods, params \in OptParams :
            val' = Notification(jsonrpc, method, params)
    /\ pc' = "made"
    /\ UNCHANGED <<wire, dec>>

MakeSuccess ==
    /\ pc = "idle"
    /\ \E jsonrpc \in Versions, result \in Values, id \in Ids :
            val' = Success(jsonrpc, result, id)
    /\ pc' = "made"
    /\ UNCHANGED <<wire, dec>>

MakeFailure ==
    /\ pc = "idle"
    /\ \E jsonrpc \in Versions, error \in Errors, id \in Ids :
            val' = Failure(jsonrpc, error, id)
    /\ pc' = "made"
    /\ UNCHANGED <<wire, dec>>

\* v1::Output::success(result, id)
MakeV1Success ==
    /\ pc = "idle"
    /\ \E result \in Values, id \in Ids : val' = V1OutputSuccess(result, id)
    /\ pc' = "made"
    /\ UNCHANGED <<wire, dec>>

\* v1::Output::failure(error, id)
MakeV1Failure ==
    /\ pc = "idle"
    /\ \E error \in Errors, id \in Ids : val' = V1OutputFailure(error, id)
    /\ pc' = "made"
    /\ UNCHANGED <<wire, dec>>

\* serde_json::to_string of the value wrapped as Request::Single(Call::..(v)).
EncodeRequest ==
    /\ pc = "made"
    /\ val.k \in {"MethodCall", "Notification"}
    /\ wire' = RequestSerialize(RequestSingle(
                    IF val.k = "MethodCall" THEN CallMethodCall(val) ELSE CallNotification(val)))
    /\ pc' = "encoded"
    /\ UNCHANGED <<val, dec>>

\* serde_json::to_string of the value wrapped as Response::Single(Output::..(v)).
EncodeResponse ==
    /\ pc = "made"
    /\ val.k \in {"Success", "Failure"}
    /\ wire' = ResponseSerialize(ResponseSingle(
                    IF val.k = "Success" THEN OutputSuccess(val) ELSE OutputFailure(val)))
    /\ pc' = "encoded"
    /\ UNCHANGED <<val, dec>>

EncodeV1Output ==
    /\ pc = "made"
    /\ val.k = "v1::Output"
    /\ wire' = V1OutputSerialize(val)
    /\ pc' = "encoded"
    /\ UNCHANGED <<val, dec>>

\* serde_json::from_str of the text just written, into each target type.
DecodeRequest ==
    /\ pc = "encoded"
    /\ IsOk(wire)
    /\ val.k \in {"MethodCall", "Notification"}
    /\ dec' = RequestDecoders(wire.ok)
    /\ pc' = "decoded"
    /\ UNCHANGED <<val, wire>>

DecodeResponse ==
    /\ pc = "encoded"
    /\ IsOk(wire)
    /\ val.k \in {"Success", "Failure"}
    /\ dec' = ResponseDecoders(wire.ok)
    /\ pc' = "decoded"
    /\ UNCHANGED <<val, wire>>

DecodeV1Output ==
    /\ pc = "encoded"
    /\ IsOk(wire)
    /\ val.k = "v1::Output"
    /\ dec' = V1Decoders(wire.ok)
    /\ pc' = "decoded"
    /\ UNCHANGED <<val, wire>>

\* serde_json::from_str of a JSON object that arrives from outside.
ReceiveRequest ==
    /\ pc = "idle"
    /\ \E pairs \in SeqsUpTo(RequestPairs, MaxFields) :
            /\ wire' = Ok(JObj(pairs))
            /\ dec' = RequestDecoders(JObj(pairs))
    /\ pc' = "received"
    /\ UNCHANGED val

ReceiveResponse ==
    /\ pc = "idle"
    /\ \E pairs \in SeqsUpTo(ResponsePairs, MaxFields) :
            /\ wire' = Ok(JObj(pairs))
            /\ dec' = ResponseDecoders(JObj(pairs))
    /\ pc' = "received"
    /\ UNCHANGED val

\* serde_json::from_str::<v1::Response> of a JSON object that arrives from outside.
ReceiveV1Response ==
    /\ pc = "idle"
    /\ \E pairs \in SeqsUpTo(V1ResponsePairs, MaxFields) :
            /\ wire' = Ok(JObj(pairs))
            /\ dec' = V1Decoders(JObj(pairs))
    /\ pc' = "received"
    /\ UNCHANGED val

\* serde_json::from_str of an object that is a valid 2.0 request but for its tag.
ReceiveTaggedRequest ==
    /\ pc = "idle"
    /\ \E s \in VersionTexts, body \in TaggedRequestBodies :
            /\ wire' = Ok(JObj(<< <<"jsonrpc", JStr(s)>> >> \o body))
            /\ dec' = RequestDecoders(JObj(<< <<"jsonrpc", JStr(s)>> >> \o body))
    /\ pc' = "received"
    /\ UNCHANGED val

\* serde_json::from_str of an object that is a valid 2.0 response but for its tag.
ReceiveTaggedResponse ==
    /\ pc = "idle"
    /\ \E s \in VersionTexts, body \in TaggedResponseBodies :
            /\ wire' = Ok(JObj(<< <<"jsonrpc", JStr(s)>> >> \o body))
            /\ dec' = ResponseDecoders(JObj(<< <<"jsonrpc", JStr(s)>> >> \o body))
    /\ pc' = "received"
    /\ UNCHANGED val

\* Request::Batch(vec![..])
MakeRequestBatch ==
    /\ pc = "idle"
    /\ \E cs \in SeqsUpTo(BatchCalls, MaxBatch) : val' = [k |-> "Request::Batch", batch |-> cs]
    /\ pc' = "made"
    /\ UNCHANGED <<wire, dec>>

\* Response::Batch(vec![..])
MakeResponseBatch ==
    /\ pc = "idle"
    /\ \E os \in SeqsUpTo(BatchOutputs, MaxBatch) :
            val' = [k |-> "Response::Batch", batch |-> os]
    /\ pc' = "made"
    /\ UNCHANGED <<wire, dec>>

EncodeRequestBatch ==
    /\ pc = "made"
    /\ val.k = "Request::Batch"
    /\ wire' = RequestSerialize(RequestBatch(val.batch))
    /\ pc' = "encoded"
    /\ UNCHANGED <<val, dec>>

EncodeResponseBatch ==
    /\ pc = "made"
    /\ val.k = "Response::Batch"
    /\ wire' = ResponseSerialize(ResponseBatch(val.batch))
    /\ pc' = "encoded"
    /\ UNCHANGED <<val, dec>>

DecodeRequestBatch ==
    /\ pc = "encoded"
    /\ IsOk(wire)
    /\ val.k = "Request::Batch"
    /\ dec' = [side |-> "request batch", asRequest |-> RequestDeserialize(wire.ok)]
    /\ pc' = "decoded"
    /\ UNCHANGED <<val, wire>>

DecodeResponseBatch ==
    /\ pc = "encoded"
    /\ IsOk(wire)
    /\ val.k = "Response::Batch"
    /\ dec' = [side |-> "response batch", asResponse |-> ResponseDeserialize(wire.ok)]
    /\ pc' = "decoded"
    /\ UNCHANGED <<val, wire>>

\* Output::new(jsonrpc, result, id)
CallOutputNew ==
    /\ pc = "idle"
    /\ \E jsonrpc \in Versions, result \in Results, id \in Ids :
            val' = [k |-> "Output::new", jsonrpc |-> jsonrpc, result |-> result, id |-> id,
                    out |-> OutputNew(jsonrpc, result, id)]
    /\ pc' = "made"
    /\ UNCHANGED <<wire, dec>>

\* Output::invalid_request(jsonrpc, id)
CallOutputInvalidRequest ==
    /\ pc = "idle"
    /\ \E jsonrpc \in Versions, id \in InvalidRequestIds :
            val' = [k |-> "Output::invalid_request", jsonrpc |-> jsonrpc, id |-> id,
                    out |-> OutputInvalidRequest(jsonrpc, id)]
    /\ pc' = "made"
    /\ UNCHANGED <<wire, dec>>

\* serde_json::to_string of the Output a constructor returned.
EncodeOutput ==
    /\ pc = "made"
    /\ val.k \in {"Output::new", "Output::invalid_request"}
    /\ wire' = OutputSerialize(val.out)
    /\ pc' = "encoded"
    /\ UNCHANGED <<val, dec>>

\* MethodCall::new_v1(method, params, id) and Notification::new_v1(method, params)
CallNewV1 ==
    /\ pc = "idle"
    /\ \E type \in {"MethodCall", "Notification"}, method \in Methods, params \in ParamsPool :
        \E id \in (IF type = "MethodCall" THEN Ids ELSE {IdNull}) :
            val' = [k |-> "new_v1", type |-> type, params |-> params, id |-> id,
                    out |-> IF type = "MethodCall" THEN MethodCallNewV1(method, params, id)
                            ELSE NotificationNewV1(method, params)]
    /\ pc' = "called"
    /\ UNCHANGED <<wire, dec>>

\* MethodCall::new_v2(method, params, id) and Notification::new_v2(method, params)
CallNewV2 ==
    /\ pc = "idle"
    /\ \E type \in {"MethodCall", "Notification"}, method \in Methods, params \in OptParams :
        \E id \in (IF type = "MethodCall" THEN Ids ELSE {IdNull}) :
            val' = [k |-> "new_v2", type |-> type, params |-> params, id |-> id,
                    out |-> IF type = "MethodCall" THEN MethodCallNewV2(method, params, id)
                            ELSE NotificationNewV2(method, params)]
    /\ pc' = "called"
    /\ UNCHANGED <<wire, dec>>

\* serde_json::from_str::<Id> of a JSON value that arrives from outside.
ReceiveId ==
    /\ pc = "idle"
    /\ \E j \in IdTexts :
            /\ wire' = Ok(j)
            /\ dec' = [side |-> "id", asId |-> IdDeserialize(j)]
    /\ pc' = "received"
    /\ UNCHANGED val

\* serde_json::from_str::<Params> of a JSON value that arrives from outside,
\* by the Params of src/request/params.rs and by the Params of src/params.rs.
ReceiveParams ==
    /\ pc = "idle"
    /\ \E j \in ParamsTexts :
            /\ wire' = Ok(j)
            /\ dec' = [side |-> "params",
                       asParams |-> ParamsDeserialize(j),
                       asParamsWithNone |-> ParamsWithNoneDeserialize(j)]
    /\ pc' = "received"
    /\ UNCHANGED val

\* params.expect_no_params() on a Params of src/params.rs, and
\* params.expect_no_params_v1() on a Params of src/request/params.rs.
CallExpectNoParams ==
    /\ pc = "idle"
    /\ \E fn \in {"expect_no_params", "expect_no_params_v1"} :
        \E params \in (IF fn = "expect_no_params" THEN ParamsPool \cup {ParamsNone}
                       ELSE ParamsPool) :
            val' = [k |-> fn, params |-> params,
                    out |-> IF fn = "expect_no_params" THEN expect_no_params(params)
                            ELSE expect_no_params_v1(params)]
    /\ pc' = "called"
    /\ UNCHANGED <<wire, dec>>

\* serde_json::from_str::<Request> of a JSON object that arrives from outside,
\* by the Request of src/request.rs.
ReceiveDerivedRequest ==
    /\ pc = "idle"
    /\ \E pairs \in SeqsUpTo(SalvagePairs, MaxFields) :
            /\ wire' = Ok(JObj(pairs))
            /\ dec' = DerivedDecoders(JObj(pairs))
    /\ pc' = "received"
    /\ UNCHANGED val

\* v1::Output::new(result, id)
CallV1OutputNew ==
    /\ pc = "idle"
    /\ \E result \in Results, id \in Ids :
            val' = [k |-> "v1::Output::new", result |-> result, id |-> id,
                    out |-> V1OutputNew(result, id)]
    /\ pc' = "called"
    /\ UNCHANGED <<wire, dec>>

\* v1::Output::invalid_request(id)
CallV1OutputInvalidRequest ==
    /\ pc = "idle"
    /\ \E id \in InvalidRequestIds :
            val' = [k |-> "v1::Output::invalid_request", id |-> id,
                    out |-> V1OutputInvalidRequest(id)]
    /\ pc' = "called"
    /\ UNCHANGED <<wire, dec>>

\* Result::from(output) of a v1::Output that a constructor returned or that
\* was read from a text.
ConvertV1Output ==
    /\ \/ /\ pc = "made"
          /\ val.k = "v1::Output"
          /\ val' = [k |-> "Result::from", output |-> val, out |-> V1OutputIntoResult(val)]
       \/ /\ pc = "called"
          /\ val.k \in {"v1::Output::new", "v1::Output::invalid_request"}
          /\ val' = [k |-> "Result::from", output |-> val.out,
                     out |-> V1OutputIntoResult(val.out)]
       \/ /\ pc \in {"received", "decoded"}
          /\ dec.side = "v1"
          /\ IsOk(dec.asOutput)
          /\ val' = [k |-> "Result::from", output |-> dec.asOutput.ok,
                     out |-> V1OutputIntoResult(dec.asOutput.ok)]
    /\ pc' = "converted"
    /\ UNCHANGED <<wire, dec>>

Next ==
    \/ MakeMethodCall
    \/ MakeNotification
    \/ MakeSuccess
    \/ MakeFailure
    \/ MakeV1Success
    \/ MakeV1Failure
    \/ EncodeRequest
    \/ EncodeResponse
    \/ EncodeV1Output
    \/ DecodeRequest
    \/ DecodeResponse
    \/ DecodeV1Output
    \/ ReceiveRequest
    \/ ReceiveResponse
    \/ ReceiveV1Response
    \/ ReceiveTaggedRequest
    \/ ReceiveTaggedResponse
    \/ MakeRequestBatch
    \/ MakeResponseBatch
    \/ EncodeRequestBatch
    \/ EncodeResponseBatch
    \/ DecodeRequestBatch
    \/ DecodeResponseBatch
    \/ CallOutputNew
    \/ CallOutputInvalidRequest
    \/ EncodeOutput
    \/ CallNewV1
    \/ CallNewV2
    \/ ReceiveId
    \/ ReceiveParams
    \/ CallExpectNoParams
    \/ ReceiveDerivedRequest
    \/ CallV1OutputNew
    \/ CallV1OutputInvalidRequest
    \/ ConvertV1Output

Spec == Init /\ [][Next]_vars

TypeOK ==
    /\ pc \in {"idle", "made", "called", "encoded", "decoded", "received", "converted"}
    /\ (pc = "idle") => (val = None /\ wire = None /\ dec = None)

----------------------------------------------------------------------------
(* Vocabulary of the properties.                                           *)

IsRequestValue == val.k \in {"MethodCall", "Notification"}
IsResponseValue == val.k \in {"Success", "Failure"}
\* The value was written and the text was read back.
RoundTripped == pc = "decoded"
ReceivedRequest == pc = "received" /\ dec.side = "request"
ReceivedResponse == pc = "received" /\ dec.side = "response"
\* The pairs of the object on the wire.
Pairs == wire.ok.obj

AsCall(v) == IF v.k = "MethodCall" THEN CallMethodCall(v) ELSE CallNotification(v)
AsOutput(v) == IF v.k = "Success" THEN OutputSuccess(v) ELSE OutputFailure(v)

IsSingleMethodCall(r) ==
    IsOk(r) /\ Kind(r.ok) = "Single" /\ Kind(r.ok.Single) = "MethodCall"
IsSingleNotification(r) ==
    IsOk(r) /\ Kind(r.ok) = "Single" /\ Kind(r.ok.Single) = "Notification"

RequestKeys == {"jsonrpc", "method", "params", "id"}
ResponseKeys == {"jsonrpc", "result", "error", "id"}
HasUnknownKey(pairs, known) == \E i \in 1..Len(pairs) : pairs[i][1] \notin known
HasRepeatedKey(pairs) ==
    \E i, j \in 1..Len(pairs) : i # j /\ pairs[i][1] = pairs[j][1]
HasPair(pairs, key, kinds) ==
    \E i \in 1..Len(pairs) : pairs[i][1] = key /\ Kind(pairs[i][2]) \in kinds

\* The version and params combinations of the two dialects.
DialectShape(v) ==
    \/ IsSome(v.jsonrpc)
    \/ IsNone(v.jsonrpc) /\ IsSome(v.params) /\ is_array(v.params.some)
IsV1WithMap(v) == IsNone(v.jsonrpc) /\ IsSome(v.params) /\ is_map(v.params.some)

----------------------------------------------------------------------------
(* C1: every Call that was written reads back, as Call and as Request, as  *)
(* the same variant holding the same value: a Notification (the 1.0 one    *)
(* with its explicit "id":null included) reads back as                     *)
(* Call::Notification, never as a MethodCall, and a MethodCall as          *)
(* Call::MethodCall.                                                       *)
C1_CallRoundTrip ==
    (RoundTripped /\ IsRequestValue) =>
        /\ dec.asCall = Ok(AsCall(val))
        /\ dec.asRequest = Ok(RequestSingle(AsCall(val)))

(* C2: a MethodCall with a Num or Str id, or a Notification, in one of the *)
(* dialect shapes (2.0 with params absent, Array or Map; 1.0 with Array    *)
(* params) is written without error and reads back, as its own struct, as  *)
(* an equal value.                                                         *)
C2_StructRoundTrip ==
    /\ (pc \in {"encoded", "decoded"} /\ IsRequestValue /\ DialectShape(val)) => IsOk(wire)
    /\ (RoundTripped /\ val.k = "MethodCall" /\ Kind(val.id) \in {"Num", "Str"}) =>
            dec.asMethodCall = Ok(val)
    /\ (RoundTripped /\ val.k = "Notification") => dec.asNotification = Ok(val)

C2_Witness ==
    /\ RoundTripped
    /\ val.k = "Notification"
    /\ IsNone(val.jsonrpc)
    /\ Len(val.params.some.Array) = MaxArr
    /\ dec.asNotification = Ok(val)

(* C3: every Success and every Failure of the dual-dialect codec, 1.0 or   *)
(* 2.0, with any id and any result (null included), is written without     *)
(* error and reads back as its own struct, as Output and as                *)
(* Response::Single, as an equal value in the same variant.                *)
C3_ResponseRoundTrip ==
    /\ (pc \in {"encoded", "decoded"} /\ IsResponseValue) => IsOk(wire)
    /\ (RoundTripped /\ IsResponseValue) =>
            /\ dec.asOutput = Ok(AsOutput(val))
            /\ dec.asResponse = Ok(ResponseSingle(AsOutput(val)))
    /\ (RoundTripped /\ val.k = "Success") => dec.asSuccess = Ok(val)
    /\ (RoundTripped /\ val.k = "Failure") => dec.asFailure = Ok(val)

C3_Witness ==
    /\ RoundTripped
    /\ val.k = "Failure"
    /\ IsNone(val.jsonrpc)
    /\ val.id = IdNull
    /\ dec.asResponse = Ok(ResponseSingle(OutputFailure(val)))

(* C4: every Output of the 1.0-only module built by Output::success (with  *)
(* any JSON value, null included) or Output::failure is written without    *)
(* error and reads back as an equal Output.                                *)
C4_V1OutputRoundTrip ==
    /\ (pc \in {"encoded", "decoded"} /\ val.k = "v1::Output") => IsOk(wire)
    /\ (RoundTripped /\ val.k = "v1::Output") => dec.asOutput = Ok(val)

(* C5: a 1.0 MethodCall or Notification (jsonrpc absent) with Map params   *)
(* is not written: the serializer returns an error; and a received object  *)
(* without a jsonrpc key whose params is a JSON object is read neither as  *)
(* MethodCall, nor as Notification, nor as Call, nor as Request.           *)
C5_DialectExclusivity ==
    /\ (pc = "encoded" /\ IsRequestValue /\ IsV1WithMap(val)) => IsErr(wire)
    /\ (ReceivedRequest /\ ~HasKey(Pairs, "jsonrpc") /\ HasPair(Pairs, "params", {"obj"})) =>
            /\ IsErr(dec.asMethodCall)
            /\ IsErr(dec.asNotification)
            /\ IsErr(dec.asCall)
            /\ IsErr(dec.asRequest)

C5_Witness ==
    /\ pc = "encoded"
    /\ val.k = "MethodCall"
    /\ IsV1WithMap(val)
    /\ val.params.some.Map # {}
    /\ IsErr(wire)

(* C6: a received object with a key outside the four of its schema, or     *)
(* with a key that occurs twice, is not read: as Request for the request   *)
(* schema, as Response for the response schema, whatever else it holds.    *)
C6_ClosedSchema ==
    /\ (ReceivedRequest /\ (HasUnknownKey(Pairs, RequestKeys) \/ HasRepeatedKey(Pairs))) =>
            IsErr(dec.asRequest)
    /\ (ReceivedResponse /\ (HasUnknownKey(Pairs, ResponseKeys) \/ HasRepeatedKey(Pairs))) =>
            IsErr(dec.asResponse)

\* A valid 2.0 notification but for its method given twice.
C6_Witness ==
    /\ ReceivedRequest
    /\ Pairs = << <<"jsonrpc", JStr("2.0")>>, <<"method", JStr("foo")>>,
                  <<"method", JStr("foo")>> >>
    /\ IsErr(dec.asRequest)

\* The request objects C7 speaks of: the four known keys at most once each,
\* jsonrpc "2.0", a string method, and params absent, an array or an object.
IsV2Request(pairs) ==
    /\ ~HasUnknownKey(pairs, RequestKeys)
    /\ ~HasRepeatedKey(pairs)
    /\ HasKey(pairs, "jsonrpc") /\ ValueOf(pairs, "jsonrpc") = JStr("2.0")
    /\ HasKey(pairs, "method") /\ Kind(ValueOf(pairs, "method")) = "str"
    /\ HasKey(pairs, "params") => Kind(ValueOf(pairs, "params")) \in {"arr", "obj"}

C8_V2NullIdRejected ==
    (ReceivedRequest /\ IsV2Request(Pairs) /\ HasPair(Pairs, "id", {"null"})) =>
        IsErr(dec.asRequest)

(* C9: a request object without a jsonrpc key is not read as Request when  *)
(* it has no params or no id, and it reads as a MethodCall only when it    *)
(* has an id and has params that are an array.                             *)
C9_V1Rules ==
    (ReceivedRequest /\ ~HasKey(Pairs, "jsonrpc")) =>
        /\ (~HasKey(Pairs, "params") \/ ~HasKey(Pairs, "id")) => IsErr(dec.asRequest)
        /\ IsSingleMethodCall(dec.asRequest) =>
                (HasKey(Pairs, "id") /\ HasPair(Pairs, "params", {"arr"}))

\* A 1.0 call that lacks nothing but its params.
C9_Witness ==
    /\ ReceivedRequest
    /\ Pairs = << <<"method", JStr("foo")>>, <<"id", JNum(1)>> >>
    /\ IsErr(dec.asRequest)

\* The keys a request value is written with, by dialect.
ExpectedKeys(v) ==
    (IF IsSome(v.jsonrpc) THEN <<"jsonrpc">> ELSE <<>>)
        \o <<"method">>
        \o (IF IsSome(v.params) THEN <<"params">> ELSE <<>>)
        \o (IF v.k = "MethodCall" \/ IsNone(v.jsonrpc) THEN <<"id">> ELSE <<>>)

(* C10: a request value is written with its fields in the order jsonrpc,   *)
(* method, params, id: jsonrpc "2.0" only in 2.0, params only when set,    *)
(* the id of a MethodCall always, no id for a 2.0 Notification and an      *)
(* explicit "id":null for a 1.0 Notification.                              *)
C10_RequestLayout ==
    (pc = "encoded" /\ IsRequestValue /\ IsOk(wire)) =>
        /\ Keys(Pairs) = ExpectedKeys(val)
        /\ IsSome(val.jsonrpc) => ValueOf(Pairs, "jsonrpc") = JStr("2.0")
        /\ ValueOf(Pairs, "method") = JStr(val.method)
        /\ IsSome(val.params) => ValueOf(Pairs, "params") = ParamsSerialize(val.params.some)
        /\ val.k = "MethodCall" => ValueOf(Pairs, "id") = IdSerialize(val.id)
        /\ (val.k = "Notification" /\ IsNone(val.jsonrpc)) => ValueOf(Pairs, "id") = JNull

C10_Witness ==
    /\ pc = "encoded"
    /\ val.k = "Notification"
    /\ IsNone(val.jsonrpc)
    /\ IsOk(wire)
    /\ Pairs[Len(Pairs)] = <<"id", JNull>>

\* The keys a response value is written with, by dialect.
ExpectedResponseKeys(v) ==
    IF IsSome(v.jsonrpc)
        THEN <<"jsonrpc", IF v.k = "Success" THEN "result" ELSE "error", "id">>
    ELSE IF v.k = "Success" THEN <<"result", "error", "id">>
    ELSE <<"error", "result", "id">>

(* C11: a 2.0 Success is written with exactly jsonrpc, result, id and a    *)
(* 2.0 Failure with exactly jsonrpc, error, id; a 1.0 Success with result, *)
(* "error":null, id and a 1.0 Failure with error, "result":null, id: no    *)
(* jsonrpc field in 1.0, and the inactive field there as an explicit null. *)
C11_ResponseLayout ==
    (pc = "encoded" /\ IsResponseValue) =>
        /\ IsOk(wire)
        /\ Keys(Pairs) = ExpectedResponseKeys(val)
        /\ IsSome(val.jsonrpc) => ValueOf(Pairs, "jsonrpc") = JStr("2.0")
        /\ ValueOf(Pairs, "id") = IdSerialize(val.id)
        /\ val.k = "Success" => ValueOf(Pairs, "result") = ValueSerialize(val.result)
        /\ val.k = "Failure" => ValueOf(Pairs, "error") = ErrorSerialize(val.error)
        /\ (val.k = "Success" /\ IsNone(val.jsonrpc)) => ValueOf(Pairs, "error") = JNull
        /\ (val.k = "Failure" /\ IsNone(val.jsonrpc)) => ValueOf(Pairs, "result") = JNull

C11_Witness ==
    /\ pc = "encoded"
    /\ val.k = "Success"
    /\ IsNone(val.jsonrpc)
    /\ IsOk(wire)
    /\ Pairs[2] = <<"error", JNull>>

\* A received object carries the 2.0 tag.
HasV2Tag(pairs) == \E i \in 1..Len(pairs) : pairs[i] = <<"jsonrpc", JStr("2.0")>>
NonNull == {"bool", "num", "frac", "str", "arr", "obj"}

(* C12: a received 2.0 object with both a non-null result and a non-null   *)
(* error is not read as Response, and neither is a 2.0 object that has     *)
(* neither a result nor an error.                                          *)
C12_V2ExactlyOne ==
    (ReceivedResponse /\ HasV2Tag(Pairs)) =>
        /\ (HasPair(Pairs, "result", NonNull) /\ HasPair(Pairs, "error", NonNull)) =>
                IsErr(dec.asResponse)
        /\ (~HasKey(Pairs, "result") /\ ~HasKey(Pairs, "error")) => IsErr(dec.asResponse)

\* A 2.0 response that lacks nothing and holds one field too many.
C12_Witness ==
    /\ ReceivedResponse
    /\ Pairs = << <<"jsonrpc", JStr("2.0")>>, <<"result", JBool(TRUE)>>,
                  <<"error", ErrorSerialize(Error(-32700, "Parse error", None))>>,
                  <<"id", JNum(1)>> >>
    /\ IsErr(dec.asResponse)

(* C13: a received object without a jsonrpc field is not read as Response  *)
(* when it has no result field, when it has no error field, and when its   *)
(* result and its error both hold non-null values.                         *)
C13_V1BothFields ==
    (ReceivedResponse /\ ~HasKey(Pairs, "jsonrpc")) =>
        /\ ~HasKey(Pairs, "result") => IsErr(dec.asResponse)
        /\ ~HasKey(Pairs, "error") => IsErr(dec.asResponse)
        /\ (HasPair(Pairs, "result", NonNull) /\ HasPair(Pairs, "error", NonNull)) =>
                IsErr(dec.asResponse)

\* A 1.0 failure that lacks nothing but its null result.
C13_Witness ==
    /\ ReceivedResponse
    /\ Pairs = << <<"error", ErrorSerialize(Error(-32700, "Parse error", None))>>,
                  <<"id", JNum(1)>> >>
    /\ IsErr(dec.asResponse)

ReceivedV1Response == pc = "received" /\ dec.side = "v1"
BothNull(pairs) == HasPair(pairs, "result", {"null"}) /\ HasPair(pairs, "error", {"null"})

(* C14: a received object without a jsonrpc field whose result is null and *)
(* whose error is null, as in {"result":null,"error":null,"id":1}, is not  *)
(* read as Response: neither by the dual-dialect codec nor by the 1.0-only *)
(* module.                                                                 *)
C14_V1BothNullRejected ==
    /\ (ReceivedResponse /\ ~HasKey(Pairs, "jsonrpc") /\ BothNull(Pairs)) =>
            IsErr(dec.asResponse)
    /\ (ReceivedV1Response /\ BothNull(Pairs)) => IsErr(dec.asResponse)

\* The received object with every id it holds replaced by j.
SetId(pairs, j) ==
    [i \in 1..Len(pairs) |-> IF pairs[i][1] = "id" THEN <<"id", j>> ELSE pairs[i]]
AllFourFail ==
    IF dec.side = "request"
        THEN /\ IsErr(dec.asMethodCall)
             /\ IsErr(dec.asNotification)
             /\ IsErr(dec.asCall)
             /\ IsErr(dec.asRequest)
        ELSE /\ IsErr(dec.asSuccess)
             /\ IsErr(dec.asFailure)
             /\ IsErr(dec.asOutput)
             /\ IsErr(dec.asResponse)

(* C15: a received response object without an id field is read neither as *)
(* Success, nor as Failure, nor as Output, nor as Response, in either      *)
(* dialect; an explicit "id":null is as good as any other id (the object   *)
(* is read exactly when it is read with the id 1 in its place) and reads   *)
(* as Id::Null.                                                            *)
C15_ResponseIdRequired ==
    /\ (ReceivedResponse /\ ~HasKey(Pairs, "id")) => AllFourFail
    /\ (ReceivedResponse /\ HasPair(Pairs, "id", {"null"})) =>
            /\ IsOk(dec.asResponse) <=>
                    IsOk(ResponseDeserialize(JObj(SetId(Pairs, JNum(1)))))
            /\ IsOk(dec.asOutput) => OutputId(dec.asOutput.ok) = IdNull

\* A 1.0 success answering a request whose id could not be read.
C15_Witness ==
    /\ ReceivedResponse
    /\ Pairs = << <<"result", JBool(TRUE)>>, <<"error", JNull>>, <<"id", JNull>> >>
    /\ IsOk(dec.asResponse)
    /\ OutputId(dec.asOutput.ok) = IdNull

\* The received object holds a jsonrpc field with a string other than "2.0".
HasOtherTag(pairs) ==
    \E i \in 1..Len(pairs) :
        /\ pairs[i][1] = "jsonrpc"
        /\ Kind(pairs[i][2]) = "str"
        /\ pairs[i][2].str # "2.0"

(* C16: the jsonrpc field is read from the string "2.0" and from no other  *)
(* string: a received request or response with another string there       *)
(* ("1.0", "2", "", ...) is not read by any decoder, the same object with  *)
(* "2.0" is, and a version tag that is set is always written as "2.0".     *)
C16_VersionTag ==
    /\ ((ReceivedRequest \/ ReceivedResponse) /\ HasOtherTag(Pairs)) => AllFourFail
    /\ (ReceivedRequest /\ \E b \in TaggedRequestBodies :
                                Pairs = << <<"jsonrpc", JStr("2.0")>> >> \o b) =>
            /\ IsOk(dec.asRequest)
            /\ dec.asCall.ok[Kind(dec.asCall.ok)].jsonrpc = Some(V2_0)
    /\ (ReceivedResponse /\ \E b \in TaggedResponseBodies :
                                Pairs = << <<"jsonrpc", JStr("2.0")>> >> \o b) =>
            /\ IsOk(dec.asResponse)
            /\ OutputVersion(dec.asOutput.ok) = Some(V2_0)
    /\ (pc = "encoded" /\ (IsRequestValue \/ IsResponseValue) /\ IsOk(wire)) =>
            IF IsSome(val.jsonrpc)
                THEN HasKey(Pairs, "jsonrpc") /\ ValueOf(Pairs, "jsonrpc") = JStr("2.0")
                ELSE ~HasKey(Pairs, "jsonrpc")

\* A valid 2.0 call but for the tag "2".
C16_Witness ==
    /\ ReceivedRequest
    /\ Len(Pairs) = 4
    /\ Pairs[1] = <<"jsonrpc", JStr("2")>>
    /\ HasKey(Pairs, "id")
    /\ IsErr(dec.asRequest)

\* The text is an array whose i-th element is what F writes for the i-th item.
EncodesElementwise(items, F(_)) ==
    /\ IsOk(wire)
    /\ Kind(wire.ok) = "arr"
    /\ Len(wire.ok.arr) = Len(items)
    /\ \A i \in 1..Len(items) : Ok(wire.ok.arr[i]) = F(items[i])

(* C17: a batch of valid calls, empty or mixed, is written as an array     *)
(* whose i-th element is the i-th call as written alone, and the array     *)
(* reads back as Request::Batch of the same calls in the same order; the   *)
(* same for Response::Batch over outputs.                                  *)
C17_BatchRoundTrip ==
    /\ (pc \in {"encoded", "decoded"} /\ val.k = "Request::Batch") =>
            EncodesElementwise(val.batch, CallSerialize)
    /\ (RoundTripped /\ val.k = "Request::Batch") =>
            dec.asRequest = Ok(RequestBatch(val.batch))
    /\ (pc \in {"encoded", "decoded"} /\ val.k = "Response::Batch") =>
            EncodesElementwise(val.batch, OutputSerialize)
    /\ (RoundTripped /\ val.k = "Response::Batch") =>
            dec.asResponse = Ok(ResponseBatch(val.batch))

(* C18: Output::new returns the Success variant holding the value when its *)
(* result is Ok and the Failure variant holding the error when it is Err,  *)
(* with the version and the id it was given; Output::invalid_request       *)
(* returns a Failure with the code -32600 and the version and id it was    *)
(* given, which for 2.0 and id 2 is written as                             *)
(* {"jsonrpc":"2.0","error":{"code":-32600,"message":"Invalid request"},   *)
(* "id":2}.                                                                *)
C18_OutputConstructors ==
    /\ (pc \in {"made", "encoded"} /\ val.k = "Output::new") =>
            /\ OutputVersion(val.out) = val.jsonrpc
            /\ OutputId(val.out) = val.id
            /\ IsOk(val.result) =>
                    (Kind(val.out) = "Success" /\ val.out.Success.result = val.result.ok)
            /\ IsErr(val.result) =>
                    (Kind(val.out) = "Failure" /\ val.out.Failure.error = val.result.err)
    /\ (pc \in {"made", "encoded"} /\ val.k = "Output::invalid_request") =>
            /\ Kind(val.out) = "Failure"
            /\ val.out.Failure.error.code = -32600
            /\ OutputVersion(val.out) = val.jsonrpc
            /\ OutputId(val.out) = val.id
    /\ (pc = "encoded" /\ val.k = "Output::invalid_request"
            /\ IsSome(val.jsonrpc) /\ val.id = IdNum(2)) =>
            wire = Ok(JObj(<< <<"jsonrpc", JStr("2.0")>>,
                              <<"error", JObj(<< <<"code", JNum(-32600)>>,
                                                 <<"message", JStr("Invalid request")>> >>)>>,
                              <<"id", JNum(2)>> >>))

C18_Witness ==
    /\ pc = "encoded"
    /\ val.k = "Output::new"
    /\ IsSome(val.jsonrpc)
    /\ IsErr(val.result)
    /\ Kind(val.out) = "Failure"
    /\ IsOk(wire)

(* C19: MethodCall::new_v1 and Notification::new_v1 panic when given Map   *)
(* params and return no value; given Array params they return a value      *)
(* without jsonrpc whose params are that Array; new_v2 never panics, for   *)
(* params absent, Array or Map.                                            *)
C19_NewV1Panics ==
    /\ (pc = "called" /\ val.k = "new_v1") =>
            IF is_map(val.params)
                THEN Kind(val.out) = "panic"
                ELSE /\ Kind(val.out) = "returned"
                     /\ val.out.returned.k = val.type
                     /\ IsNone(val.out.returned.jsonrpc)
                     /\ val.out.returned.params = Some(val.params)
    /\ (pc = "called" /\ val.k = "new_v2") =>
            /\ Kind(val.out) = "returned"
            /\ val.out.returned.k = val.type
            /\ val.out.returned.jsonrpc = Some(V2_0)
            /\ val.out.returned.params = val.params

C19_Witness ==
    /\ pc = "called"
    /\ val.k = "new_v1"
    /\ val.type = "MethodCall"
    /\ is_map(val.params)
    /\ val.params.Map # {}
    /\ Kind(val.out) = "panic"

ReceivedId == pc = "received" /\ dec.side = "id"

(* C20: a JSON value read as Id gives Num(n) for a non-negative integer n  *)
(* and Str(s) for a string s, with no coercion between the two ("1" and 1  *)
(* are different ids); a negative or a fractional number is not read; and  *)
(* what is written for an id reads back as that id, so the id of a         *)
(* MethodCall comes back unchanged from a round trip.                      *)
C20_IdCodec ==
    /\ (ReceivedId /\ Kind(wire.ok) = "num" /\ wire.ok.num >= 0) =>
            dec.asId = Ok(IdNum(wire.ok.num))
    /\ (ReceivedId /\ Kind(wire.ok) = "str") => dec.asId = Ok(IdStr(wire.ok.str))
    /\ (ReceivedId /\ Kind(wire.ok) = "num" /\ wire.ok.num < 0) => IsErr(dec.asId)
    /\ (ReceivedId /\ Kind(wire.ok) = "frac") => IsErr(dec.asId)
    /\ (pc \in {"encoded", "decoded"} /\ val.k = "MethodCall" /\ IsOk(wire)) =>
            IdDeserialize(ValueOf(Pairs, "id")) = Ok(val.id)
    /\ (RoundTripped /\ val.k = "MethodCall") =>
            /\ IsOk(dec.asMethodCall)
            /\ dec.asMethodCall.ok.id = val.id

C20_Witness ==
    /\ ReceivedId
    /\ wire = Ok(JStr("1"))
    /\ dec.asId = Ok(IdStr("1"))

ReceivedParams == pc = "received" /\ dec.side = "params"
\* The map the pairs of a JSON object make.
MapOf(j) ==
    MapFromPairs([i \in 1..Len(j.obj) |-> <<j.obj[i][1], ValueDeserialize(j.obj[i][2])>>], {})

(* C21: a JSON value is read as Params by its shape: an array gives        *)
(* Params::Array with the same elements in the same order, an object gives *)
(* Params::Map with the object's entries, and a string, a number, a bool   *)
(* or null is not read, by either Params type; what is read writes back as *)
(* the value it was read from.                                             *)
C21_ParamsByShape ==
    /\ (ReceivedParams /\ Kind(wire.ok) = "arr") =>
            /\ dec.asParams = Ok(ParamsArray(ValueDeserialize(wire.ok).arr))
            /\ dec.asParamsWithNone = dec.asParams
    /\ (ReceivedParams /\ Kind(wire.ok) = "obj") =>
            /\ dec.asParams = Ok(ParamsMap(MapOf(wire.ok)))
            /\ dec.asParamsWithNone = dec.asParams
    /\ (ReceivedParams /\ Kind(wire.ok) \notin {"arr", "obj"}) =>
            /\ IsErr(dec.asParams)
            /\ IsErr(dec.asParamsWithNone)
    /\ (ReceivedParams /\ IsOk(dec.asParams)) =>
            ParamsSerialize(dec.asParams.ok) = ValueDeserialize(wire.ok)
    /\ (ReceivedParams /\ IsOk(dec.asParamsWithNone)) =>
            ParamsWithNoneSerialize(dec.asParamsWithNone.ok) = ValueDeserialize(wire.ok)

CalledExpectNoParams ==
    pc = "called" /\ val.k \in {"expect_no_params", "expect_no_params_v1"}
IsNoParams(p) == Kind(p) = "None" \/ (Kind(p) = "Array" /\ p.Array = <<>>)

(* C22: the check for no parameters, expect_no_params and                  *)
(* expect_no_params_v1, returns Ok exactly when the Params is absent or an *)
(* empty Array; for a non-empty Array and for every Map, the empty Map     *)
(* included, it returns an InvalidParams error (code -32602) whose data is *)
(* the offending params value.                                             *)
C22_ExpectNoParams ==
    CalledExpectNoParams =>
        /\ IsOk(val.out) <=> IsNoParams(val.params)
        /\ ~IsNoParams(val.params) =>
                /\ IsErr(val.out)
                /\ val.out.err.code = -32602
                /\ val.out.err.data = Some(ParamsIntoValue(val.params))

C22_Witness ==
    /\ CalledExpectNoParams
    /\ val.params = ParamsMap({})
    /\ IsErr(val.out)
    /\ val.out.err.data = Some(JObj(<<>>))

ReceivedDerivedRequest == pc = "received" /\ dec.side = "request.rs"
CountKey(pairs, key) == Cardinality({i \in 1..Len(pairs) : pairs[i][1] = key})
NeitherValidates == IsErr(dec.asMethodCall) /\ IsErr(dec.asNotification)

(* C23: a received object that is read neither as MethodCall nor as        *)
(* Notification, for example because it has an unknown field, is still     *)
(* read as Request by the codec of src/request.rs, as                      *)
(* Request::Single(Call::Invalid{id}): with the id of its id field when    *)
(* that field holds a valid id, and with Id::Null when it has no id field. *)
C23_InvalidSalvage ==
    /\ (ReceivedDerivedRequest /\ NeitherValidates /\ ~HasKey(Pairs, "id")) =>
            dec.asRequest = Ok(RequestSingle(CallInvalid(IdNull)))
    /\ (ReceivedDerivedRequest /\ NeitherValidates /\ CountKey(Pairs, "id") = 1
            /\ IsOk(IdDeserialize(ValueOf(Pairs, "id")))) =>
            dec.asRequest =
                Ok(RequestSingle(CallInvalid(IdDeserialize(ValueOf(Pairs, "id")).ok)))

C23_Witness ==
    /\ ReceivedDerivedRequest
    /\ Pairs = << <<"id", JNum(1)>>, <<"method", JStr("foo")>>,
                  <<"params", JArr(<<JNum(1), JBool(TRUE)>>)>>, <<"unknown", JArr(<<>>)>> >>
    /\ NeitherValidates
    /\ dec.asRequest = Ok(RequestSingle(CallInvalid(IdNum(1))))

(* C24: a received object whose id field holds something that is no id     *)
(* (1.2, a negative number, a bool or an array) is still read as Call by   *)
(* the codec of src/request.rs, as Call::Invalid with Id::Null.            *)
C24_MalformedIdSalvage ==
    (ReceivedDerivedRequest /\ CountKey(Pairs, "id") = 1
        /\ IsErr(IdDeserialize(ValueOf(Pairs, "id")))) =>
        dec.asCall = Ok(CallInvalid(IdNull))

CalledConstructor == pc = "called" /\ val.k \in {"new_v1", "new_v2"}
DecodedRequest == pc \in {"received", "decoded"} /\ dec.side = "request"

(* C25: the method of every MethodCall and Notification is a non-empty     *)
(* string: of those that new_v1 and new_v2 return, and of those that a     *)
(* decode returns, so that a request object whose method is "" is not read.*)
C25_MethodNonEmpty ==
    /\ (CalledConstructor /\ Kind(val.out) = "returned") =>
            val.out.returned.method # ""
    /\ (DecodedRequest /\ IsOk(dec.asMethodCall)) => dec.asMethodCall.ok.method # ""
    /\ (DecodedRequest /\ IsOk(dec.asNotification)) => dec.asNotification.ok.method # ""
    /\ (DecodedRequest /\ HasPair(Pairs, "method", {"str"})
            /\ ValueOf(Pairs, "method") = JStr("")) => IsErr(dec.asRequest)

\* Two reorderings of an object: its first two pairs exchanged, and its first
\* pair moved to the end.  Every reordering of an object is a chain of these
\* two, and every object of the pool's pairs is received, so agreement across
\* each of the two is agreement across all the orders of an object.
SwapFirst(pairs) == <<pairs[2], pairs[1]>> \o SubSeq(pairs, 3, Len(pairs))
Rotate(pairs) == Tail(pairs) \o <<Head(pairs)>>
Reorderings(pairs) ==
    IF Len(pairs) < 2 THEN {} ELSE {SwapFirst(pairs), Rotate(pairs)}
\* Both fail, or both succeed with the same value.
SameOutcome(r1, r2) ==
    IF IsErr(r1) THEN IsErr(r2) ELSE r1 = r2

(* C26: what a JSON object is read as does not depend on the order of its  *)
(* fields: for every received object and every reordering of its pairs,    *)
(* the MethodCall, Notification, Success and Failure decoders either fail  *)
(* on every order or succeed with the same value on every order.           *)
C26_FieldOrder ==
    /\ ReceivedRequest =>
            \A pairs \in Reorderings(Pairs) :
                /\ SameOutcome(dec.asMethodCall, MethodCallDeserialize(JObj(pairs)))
                /\ SameOutcome(dec.asNotification, NotificationDeserialize(JObj(pairs)))
    /\ ReceivedResponse =>
            \A pairs \in Reorderings(Pairs) :
                /\ SameOutcome(dec.asSuccess, SuccessDeserialize(JObj(pairs)))
                /\ SameOutcome(dec.asFailure, FailureDeserialize(JObj(pairs)))

C26_Witness ==
    /\ ReceivedRequest
    /\ Pairs = << <<"id", JNum(1)>>, <<"params", JArr(<<JNum(1), JBool(TRUE)>>)>>,
                  <<"method", JStr("foo")>>, <<"jsonrpc", JStr("2.0")>> >>
    /\ dec.asMethodCall =
            Ok(MethodCall(Some(V2_0), "foo",
                          Some(ParamsArray(<<JNum(1), JBool(TRUE)>>)), IdNum(1)))

ReadAsRequest ==
    /\ pc \in {"received", "decoded"}
    /\ dec.side \in {"request", "request batch"}
    /\ IsOk(dec.asRequest)
ReadAsResponse ==
    /\ pc \in {"received", "decoded"}
    /\ dec.side \in {"response", "response batch"}
    /\ IsOk(dec.asResponse)

(* C27: whatever is read as Request or as Response can be written: the    *)
(* encoder does not refuse the decoded value, and reading what it writes   *)
(* gives the decoded value again.                                          *)
C27_DecodedEncodable ==
    /\ ReadAsRequest =>
            /\ IsOk(RequestSerialize(dec.asRequest.ok))
            /\ RequestDeserialize(RequestSerialize(dec.asRequest.ok).ok) = dec.asRequest
    /\ ReadAsResponse =>
            /\ IsOk(ResponseSerialize(dec.asResponse.ok))
            /\ ResponseDeserialize(ResponseSerialize(dec.asResponse.ok).ok) = dec.asResponse

C27_Witness ==
    /\ ReceivedRequest
    /\ Pairs = << <<"id", JNull>>, <<"params", JArr(<<JNum(1), JBool(TRUE)>>)>>,
                  <<"method", JStr("foo")>> >>
    /\ IsOk(dec.asRequest)
    /\ RequestSerialize(dec.asRequest.ok) =
            Ok(JObj(<< <<"method", JStr("foo")>>,
                       <<"params", JArr(<<JNum(1), JBool(TRUE)>>)>>, <<"id", JNull>> >>))

DecodedResponse == pc \in {"received", "decoded"} /\ dec.side = "response"

(* C28: no JSON object is read both as Success and as Failure: of the two  *)
(* decoders at most one accepts any given object, in either dialect.       *)
C28_ShapesDisjoint ==
    DecodedResponse => ~(IsOk(dec.asSuccess) /\ IsOk(dec.asFailure))

C28_Witness ==
    /\ ReceivedResponse
    /\ Pairs = << <<"result", JNull>>,
                  <<"error", ErrorSerialize(Error(-32700, "Parse error", None))>>,
                  <<"id", JNum(1)>> >>
    /\ IsErr(dec.asSuccess)
    /\ IsOk(dec.asFailure)

ExactlyOneSet(o) == IsSome(o.result) # IsSome(o.error)

(* C29: a 1.0-only Output that Output::new, success, failure or            *)
(* invalid_request returned, or that a decode returned, has exactly one of *)
(* result and error set; its conversion into Result<Value, Error> never    *)
(* reaches unreachable!() and gives Ok(result) or Err(error).              *)
C29_V1ExactlyOne ==
    /\ (pc = "made" /\ val.k = "v1::Output") => ExactlyOneSet(val)
    /\ (pc = "called" /\ val.k \in {"v1::Output::new", "v1::Output::invalid_request"}) =>
            ExactlyOneSet(val.out)
    /\ (pc \in {"received", "decoded"} /\ dec.side = "v1" /\ IsOk(dec.asOutput)) =>
            ExactlyOneSet(dec.asOutput.ok)
    /\ (pc = "converted") =>
            /\ Kind(val.out) = "returned"
            /\ IsSome(val.output.result) => val.out.returned = Ok(val.output.result.some)
            /\ IsSome(val.output.error) => val.out.returned = Err(val.output.error.some)

C29_Witness ==
    /\ pc = "converted"
    /\ wire = Ok(JObj(<< <<"id", JNum(1)>>, <<"result", JNull>>,
                         <<"error", ErrorSerialize(Error(-32700, "Parse error", None))>> >>))
    /\ val.out = Returned(Err(Error(-32700, "Parse error", None)))

\* The object carries one field with a value and the other as an explicit null.
HasNullCompanion(pairs) ==
    \/ HasKey(pairs, "result") /\ HasPair(pairs, "error", {"null"})
    \/ HasKey(pairs, "error") /\ HasPair(pairs, "result", {"null"})

(* C30: a 2.0 response object may not carry the other field as an explicit *)
(* null: an object tagged "2.0" with a result and "error":null, or with an *)
(* error and "result":null, is not read as Response (nor as Success,       *)
(* Failure or Output).                                                     *)
C30_V2NullCompanion ==
    (ReceivedResponse /\ HasV2Tag(Pairs) /\ HasNullCompanion(Pairs)) =>
        /\ IsErr(dec.asResponse)
        /\ IsErr(dec.asOutput)
        /\ IsErr(dec.asSuccess)
        /\ IsErr(dec.asFailure)

C30_Witness ==
    /\ ReceivedResponse
    /\ Pairs = << <<"jsonrpc", JStr("2.0")>>, <<"result", JBool(TRUE)>>,
                  <<"error", JNull>>, <<"id", JNum(1)>> >>
    /\ IsErr(dec.asResponse)

====
